---- MODULE Spec2Model ----
(***************************************************************************)
(* A model of the Peerster gossiper (SubutaiBogatur/DecentralizedPeerster): *)
(* the message-processor thread, the rumor-mongering goroutines and the    *)
(* status-channel map of gossiper.go, the hop-limited unicast forwarding,  *)
(* and the block tree of BlockchainManager.go.                             *)
(*                                                                         *)
(* A node is named by its peer address; NameOf gives its gossiper name.    *)
(* Every per-node field is a function over the nodes of the run, so the    *)
(* same actions serve a single node fed by outside peers (SpecGossip) and  *)
(* a line of three nodes joined by datagrams (SpecLine).                   *)
(***************************************************************************)
EXTENDS Integers, Sequences, FiniteSets, TLC

VARIABLES
    peers,             \* g.peers: node -> sequence of peer addresses
    nextHop,           \* g.nextHop: node -> [origin -> peer address or None]
    store,             \* g.messageStorage rumor log: node -> [origin -> Seq(rumor)]
    statusesChannels,  \* statusesChannels: node -> [peer address -> channel, 0 = no entry]
    threads,           \* node -> the live rumor-mongering goroutines
    disp,              \* node -> position of the message-processor thread
    net,               \* datagrams in flight between the nodes of the run
    last,              \* the input handled by the last step
    out,               \* what the last step put on peerMessagesToSend, in order
    pool,              \* node -> the status channels the run lets it have at a time
    bm,                \* g.blockchainManager: tail, blocks, pendingTx
    miner,             \* position of the mining thread
    privateMessages,   \* g.messageStorage private log: node -> Seq(private message)
    sharedFiles,       \* g.sharedFilesManager: node -> the files shared
    recentSearchRequests,     \* g.recentSearchRequests: node -> keys answered lately
    downloadingFilesChannels, \* downloadingFilesChannels: node -> [origin -> channel, 0 = no entry]
    currentSearchRequest,     \* g.currentSearchRequest: node -> <<>> (nil) or <<the search>>
    downloadingFiles,  \* g.downloadingFilesManager: node -> [origin in progress -> the file]
    downloadTasks,     \* node -> the live file-downloading goroutines
    searchTasks        \* node -> the live file-searching goroutines

gossipVars == <<peers, nextHop, store, statusesChannels, threads, disp, net, pool>>

\* What the gossip actions leave alone.
fileVars == <<privateMessages, sharedFiles, recentSearchRequests,
              downloadingFilesChannels, currentSearchRequest>>

\* The download engine's own state, and the goroutines of the searches.
downloadVars == <<downloadingFiles, downloadTasks, searchTasks>>

beyondGossip == <<bm, miner, fileVars, downloadVars>>

vars == <<gossipVars, last, out, beyondGossip>>

None == "none"

\* ---------------------------------------------------------------- bounds

\* SpecGossip: the highest rumor id an outside peer or the client brings in,
\* and the status channels (live mongering goroutines) the node has at a time.
MaxId == 2
\* The datagrams in flight at a time between the nodes of a run.
MaxFlight == 2

MaxThreads == 1

\* SpecSession: the same two bounds, for the runs about mongering sessions.
SessionMaxId == 2

SessionThreads == 2

\* ------------------------------------------------------------ vocabulary

Nodes == DOMAIN peers

Origins == DOMAIN nextHop[CHOOSE n \in Nodes : TRUE]

Addrs == DOMAIN statusesChannels[CHOOSE n \in Nodes : TRUE]

\* g.name of the node listening on an address.
NameOf(n) ==
    CASE n = "a" -> "A"
      [] n = "b" -> "B"
      [] n = "c" -> "C"
      [] OTHER -> "X"

\* Go's string order on the origin names in use.
OriginOrder == <<"A", "B", "C", "X">>

Range(s) == {s[i] : i \in 1..Len(s)}

Texts == {"", "hi"}

\* The text an origin published under an id (every second rumor is a route
\* rumor, with the empty text).
TextOf(id) == IF id % 2 = 0 THEN "" ELSE "hi"

Rumors(maxId) ==
    {[origin |-> o, ID |-> i, text |-> TextOf(i)] : o \in Origins, i \in 1..maxId}

Statuses(maxId) == [Origins -> 1..(maxId + 1)]

RumorPacket(r) == [kind |-> "rumor", rmsg |-> r]

StatusPacket(w) == [kind |-> "status", want |-> w]

Idle == [pc |-> "idle"]

\* --------------------------------------------------------- message store

\* MessageStorage.IsNewMessage: the rumor is the next one of its origin.
IsNewMessage(st, r) == r.ID = Len(st[r.origin]) + 1

\* AddRumorMessage admitting any rumor beyond the prefix, gaps included.
AddRumorMessage_gap(st, r) ==
    IF r.ID > Len(st[r.origin]) THEN [st EXCEPT ![r.origin] = Append(@, r)] ELSE st

\* MessageStorage.AddRumorMessage: the log after the call (the call returns
\* IsNewMessage of the log before).
AddRumorMessage(st, r) ==
    IF IsNewMessage(st, r) THEN [st EXCEPT ![r.origin] = Append(@, r)] ELSE st

\* MessageStorage.GetNextMessageId
GetNextMessageId(st, o) == Len(st[o]) + 1

\* MessageStorage.GetCurrentStatusPacket: the vector clock of the log.
GetCurrentStatusPacket(st) == [o \in DOMAIN st |-> Len(st[o]) + 1]

\* The origins of which the log holds a rumor the status still wants.
Behind(st, sp) == {o \in DOMAIN st : sp[o] <= Len(st[o])}

\* MessageStorage.Diff, first result: the rumor to send, smallest origin
\* first and then smallest id; None when the peer lacks nothing.
DiffHasRumor(st, sp) == Behind(st, sp) # {}

DiffRumor(st, sp) ==
    LET i == CHOOSE k \in 1..Len(OriginOrder) :
                 /\ OriginOrder[k] \in Behind(st, sp)
                 /\ \A j \in 1..(k - 1) : OriginOrder[j] \notin Behind(st, sp)
        o == OriginOrder[i]
    IN  st[o][sp[o]]

\* MessageStorage.Diff, second result: the peer holds a rumor the log lacks.
OtherHasSomethingNew(st, sp) == \E o \in DOMAIN st : sp[o] > Len(st[o]) + 1

\* ------------------------------------------------------- gossiper helpers

\* UpdatePeersIfNeeded
UpdatePeersIfNeeded(ps, peer) ==
    IF \E i \in 1..Len(ps) : ps[i] = peer THEN ps ELSE Append(ps, peer)

\* updateNextHop
updateNextHop(nh, origin, relay) ==
    IF nh[origin] = None \/ nh[origin] # relay
    THEN [nh EXCEPT ![origin] = relay]
    ELSE nh

\* The channels a node has in use: those of its goroutines and of the map.
UsedChannels(ths, chans) ==
    {t.ch : t \in ths} \cup ({chans[p] : p \in DOMAIN chans} \ {0})

\* make(chan *StatusPacket): a channel no goroutine and no map entry holds.
HasFreshChannel(k, ths, chans) == (1..k) \ UsedChannels(ths, chans) # {}

FreshChannel(k, ths, chans) ==
    CHOOSE c \in (1..k) \ UsedChannels(ths, chans) :
        \A d \in (1..k) \ UsedChannels(ths, chans) : c <= d

\* spreadTheRumor without its check of the map: the channel of a session in
\* progress is replaced.
spreadTheRumor_replace(k, chans, ths, rmsg, peer) ==
    IF ~HasFreshChannel(k, ths, chans)
    THEN [chans |-> chans, threads |-> ths, out |-> <<>>]
    ELSE LET ch == FreshChannel(k, ths, chans)
         IN  [chans |-> [chans EXCEPT ![peer] = ch],
              threads |-> ths \cup {[ch |-> ch, peer |-> peer, msg |-> rmsg,
                                     pc |-> "wait"]},
              out |-> <<[dst |-> peer, pkt |-> RumorPacket(rmsg)]>>]

\* spreadTheRumor with the peer chosen: the map, the goroutines and the
\* packets enqueued after the call.
spreadTheRumor(k, chans, ths, rmsg, peer) ==
    IF chans[peer] # 0
    THEN [chans |-> chans, threads |-> ths, out |-> <<>>]
    ELSE LET ch == FreshChannel(k, ths, chans)
         IN  [chans |-> [chans EXCEPT ![peer] = ch],
              threads |-> ths \cup {[ch |-> ch, peer |-> peer, msg |-> rmsg,
                                     pc |-> "wait"]},
              out |-> <<[dst |-> peer, pkt |-> RumorPacket(rmsg)]>>]

\* The datagrams of a step's output that travel to a node of the run; the
\* others leave the model through the peer writer.
Datagrams(n, o) ==
    {[src |-> n, dst |-> o[i].dst, pkt |-> o[i].pkt] :
        i \in {j \in 1..Len(o) : o[j].dst \in Nodes}}

\* What a step handled: the node, the kind of input, the peer it came from
\* (or the peer of the goroutine that ran) and, for a rumor, its origin and id.
Handled(n, kind, from, origin, id) ==
    [node |-> n, kind |-> kind, from |-> from, origin |-> origin, ID |-> id]

\* ------------------------------------------------ message-processor thread

\* processRumorMessage, for a node whose peers are ps: the rumor is admitted
\* if new and then mongered with a random peer.  `before` is what the caller
\* has enqueued already.
processRumorMessage(n, ps, rmsg, before, consumed) ==
    LET isNewMessage == IsNewMessage(store[n], rmsg) IN
    /\ store' = [store EXCEPT ![n] = AddRumorMessage(@, rmsg)]
    /\ peers' = [peers EXCEPT ![n] = ps]
    /\ IF isNewMessage /\ Len(ps) > 0
       THEN \E peer \in Range(ps) :
                /\ statusesChannels[n][peer] = 0 =>
                       HasFreshChannel(pool[n], threads[n], statusesChannels[n])
                /\ LET s == spreadTheRumor(pool[n], statusesChannels[n], threads[n], rmsg, peer)
                   IN  /\ statusesChannels' = [statusesChannels EXCEPT ![n] = s.chans]
                       /\ threads' = [threads EXCEPT ![n] = s.threads]
                       /\ out' = before \o s.out
       ELSE /\ out' = before
            /\ UNCHANGED <<statusesChannels, threads>>
    /\ net' = (net \ consumed) \cup Datagrams(n, out')
    /\ Cardinality(net') <= MaxFlight
    /\ UNCHANGED <<disp, pool, beyondGossip>>

\* processClientMessage, Rumor and RouteRumor (the empty text), gossip mode.
ClientRumor(n, text, maxId) ==
    /\ disp[n].pc = "idle"
    /\ GetNextMessageId(store[n], NameOf(n)) <= maxId
    /\ LET rmsg == [origin |-> NameOf(n),
                    ID |-> GetNextMessageId(store[n], NameOf(n)),
                    text |-> text]
       IN  /\ processRumorMessage(n, peers[n], rmsg, <<>>, {})
           /\ last' = Handled(n, "client", None, rmsg.origin, rmsg.ID)
    /\ UNCHANGED nextHop

\* The status processAddressedRumorMessage sends back to the rumorer.
feedbackStatus(st, rmsg) == StatusPacket(GetCurrentStatusPacket(st))

\* The next hop updated without asking IsNewMessage.
nextHopAfterRumor_always(nh, st, rmsg, address) ==
    updateNextHop(nh, rmsg.origin, address)

\* The next-hop table after processAddressedRumorMessage.
nextHopAfterRumor(nh, st, rmsg, address) ==
    IF IsNewMessage(st, rmsg) THEN updateNextHop(nh, rmsg.origin, address) ELSE nh

\* processAddressedGossipPacket with a Rumor: processAddressedRumorMessage.
PeerRumor(n, from, rmsg, consumed) ==
    /\ disp[n].pc = "idle"
    /\ nextHop' = [nextHop EXCEPT ![n] = nextHopAfterRumor(@, store[n], rmsg, from)]
    /\ processRumorMessage(n, UpdatePeersIfNeeded(peers[n], from), rmsg,
           <<[dst |-> from, pkt |-> feedbackStatus(store[n], rmsg)]>>, consumed)
    /\ last' = Handled(n, "rumor", from, rmsg.origin, rmsg.ID)

\* The key left in the map after the handoff.
deleteAfterHandoff_kept(chans, peer) == chans

\* The map after the message processor has handed a status to the goroutine
\* of a peer.
deleteAfterHandoff(chans, peer) == [chans EXCEPT ![peer] = 0]

\* processAddressedGossipPacket with a Status: processAddressedStatusPacket.
\* With a channel in the map the thread keeps statusesChannelsMux and blocks
\* in the send on it; with none it answers the status itself.
PeerStatus(n, from, sp, consumed) ==
    /\ disp[n].pc = "idle"
    /\ peers' = [peers EXCEPT ![n] = UpdatePeersIfNeeded(@, from)]
    /\ last' = Handled(n, "status", from, None, 0)
    /\ IF statusesChannels[n][from] # 0
       THEN /\ disp' = [disp EXCEPT ![n] =
                   [pc |-> "sendStatus", ch |-> statusesChannels[n][from],
                    peer |-> from, sp |-> sp]]
            /\ out' = <<>>
            /\ UNCHANGED <<statusesChannels, threads>>
       ELSE /\ UNCHANGED disp
            /\ IF DiffHasRumor(store[n], sp)
               THEN /\ HasFreshChannel(pool[n], threads[n], statusesChannels[n])
                    /\ LET s == spreadTheRumor(pool[n], statusesChannels[n], threads[n],
                                               DiffRumor(store[n], sp), from)
                       IN  /\ statusesChannels' = [statusesChannels EXCEPT ![n] = s.chans]
                           /\ threads' = [threads EXCEPT ![n] = s.threads]
                           /\ out' = s.out
               ELSE /\ out' = IF OtherHasSomethingNew(store[n], sp)
                              THEN <<[dst |-> from,
                                      pkt |-> StatusPacket(GetCurrentStatusPacket(store[n]))]>>
                              ELSE <<>>
                    /\ UNCHANGED <<statusesChannels, threads>>
    /\ net' = (net \ consumed) \cup Datagrams(n, out')
    /\ Cardinality(net') <= MaxFlight
    /\ UNCHANGED <<nextHop, store, pool, beyondGossip>>

\* What the goroutine does with the status it received: MessageStorage.Diff
\* in the status case of startRumorMongeringThread.
StatusVerdict(st, sp) ==
    IF DiffHasRumor(st, sp) THEN "resend"
    ELSE IF OtherHasSomethingNew(st, sp) THEN "behind"
    ELSE "insync"

\* The send `val <- sp` of processAddressedStatusPacket meets the receive of
\* the goroutine waiting in its select, which diffs the status at once; the
\* message processor then deletes the key and releases statusesChannelsMux.
Handoff(n) ==
    /\ disp[n].pc = "sendStatus"
    /\ \E t \in threads[n] :
        /\ t.ch = disp[n].ch
        /\ t.pc = "wait"
        /\ threads' = [threads EXCEPT ![n] =
               (@ \ {t}) \cup
               {[t EXCEPT !.pc = StatusVerdict(store[n], disp[n].sp),
                          !.msg = IF DiffHasRumor(store[n], disp[n].sp)
                                  THEN DiffRumor(store[n], disp[n].sp) ELSE @]}]
    /\ statusesChannels' = [statusesChannels EXCEPT ![n] =
           deleteAfterHandoff(@, disp[n].peer)]
    /\ disp' = [disp EXCEPT ![n] = Idle]
    /\ last' = Handled(n, "thread", None, None, 0)
    /\ out' = <<>>
    /\ UNCHANGED <<peers, nextHop, store, net, pool, beyondGossip>>

\* statusesChannelsMux is held by the message processor from its Lock to its
\* Unlock, that is while it is blocked in the send.
MuxFree(n) == disp[n].pc # "sendStatus"

\* ------------------------------------------------- rumor-mongering thread

\* startRumorMongeringThread: the select takes the ticker's case.
Timeout(n) ==
    \E t \in threads[n] :
        /\ t.pc = "wait"
        /\ threads' = [threads EXCEPT ![n] = (@ \ {t}) \cup {[t EXCEPT !.pc = "timeout"]}]
        /\ last' = Handled(n, "thread", None, None, 0)
        /\ out' = <<>>
        /\ UNCHANGED <<peers, nextHop, store, statusesChannels, disp, net, pool, beyondGossip>>

\* The timeout case cleans the map under statusesChannelsMux.
TimeoutCleanup(n) ==
    \E t \in threads[n] :
        /\ t.pc = "timeout"
        /\ MuxFree(n)
        /\ statusesChannels' = [statusesChannels EXCEPT ![n][t.peer] = 0]
        /\ threads' = [threads EXCEPT ![n] = (@ \ {t}) \cup {[t EXCEPT !.pc = "coin"]}]
        /\ last' = Handled(n, "thread", None, None, 0)
        /\ out' = <<>>
        /\ UNCHANGED <<peers, nextHop, store, disp, net, pool, beyondGossip>>

\* flipRumorMongeringCoin, with which goroutine t ends: on heads the rumor
\* goes to a random peer, for which spreadTheRumor takes the mutex.
flipRumorMongeringCoin(n, t) ==
    /\ \/ /\ out' = <<>>
          /\ threads' = [threads EXCEPT ![n] = @ \ {t}]
          /\ UNCHANGED statusesChannels
       \/ /\ MuxFree(n)
          /\ \E peer \in Range(peers[n]) :
                LET s == spreadTheRumor(pool[n], statusesChannels[n], threads[n] \ {t}, t.msg, peer)
                IN  /\ statusesChannels' = [statusesChannels EXCEPT ![n] = s.chans]
                    /\ threads' = [threads EXCEPT ![n] = s.threads]
                    /\ out' = s.out
    /\ net' = net \cup Datagrams(n, out')
    /\ Cardinality(net') <= MaxFlight
    /\ UNCHANGED <<peers, nextHop, store, disp, pool, beyondGossip>>

\* The coin of the timeout case.
TimeoutCoin(n) ==
    \E t \in threads[n] :
        /\ t.pc = "coin"
        /\ last' = Handled(n, "thread", None, None, 0)
        /\ flipRumorMongeringCoin(n, t)

\* The status case: the peer lacks a rumor, which is mongered with it.
StatusResend(n) ==
    \E t \in threads[n] :
        /\ t.pc = "resend"
        /\ MuxFree(n)
        /\ LET s == spreadTheRumor(pool[n], statusesChannels[n], threads[n] \ {t}, t.msg, t.peer)
           IN  /\ statusesChannels' = [statusesChannels EXCEPT ![n] = s.chans]
               /\ threads' = [threads EXCEPT ![n] = s.threads]
               /\ out' = s.out
        /\ last' = Handled(n, "thread", None, None, 0)
        /\ net' = net \cup Datagrams(n, out')
        /\ Cardinality(net') <= MaxFlight
        /\ UNCHANGED <<peers, nextHop, store, disp, pool, beyondGossip>>

\* The status case: the peer knows more, it is sent the node's status.
StatusBehind(n) ==
    \E t \in threads[n] :
        /\ t.pc = "behind"
        /\ out' = <<[dst |-> t.peer,
                     pkt |-> StatusPacket(GetCurrentStatusPacket(store[n]))]>>
        /\ threads' = [threads EXCEPT ![n] = @ \ {t}]
        /\ last' = Handled(n, "thread", None, None, 0)
        /\ net' = net \cup Datagrams(n, out')
        /\ Cardinality(net') <= MaxFlight
        /\ UNCHANGED <<peers, nextHop, store, statusesChannels, disp, pool, beyondGossip>>

\* The status case: in sync, the coin is flipped.
StatusInSync(n) ==
    \E t \in threads[n] :
        /\ t.pc = "insync"
        /\ last' = Handled(n, "thread", None, None, 0)
        /\ flipRumorMongeringCoin(n, t)

\* ------------------------------------------------------------ the block tree

MaxNonce == 1
MaxBlocks == 4
MaxHop == 1

\* The hash of the synthetic genesis: 32 zero bytes.
ZeroHash == <<>>

\* The files a transaction can claim a name for: (name, metafile hash).
Txs == {[Name |-> "f", MetafileHash |-> 1], [Name |-> "f", MetafileHash |-> 2],
        [Name |-> "g", MetafileHash |-> 1]}

Nonces == 0..MaxNonce

\* Block.Hash: sha256 over the previous hash, the nonce and the transactions,
\* kept here as the triple itself, so that different blocks differ in hash.
BlockHash(b) == <<b.PrevHash, b.Nonce, b.Transactions>>

\* The first bytes of a digest, folded to one number.
LeadingBytes(h) ==
    IF h = ZeroHash THEN 0
    ELSE ((IF h[1] = ZeroHash THEN 0 ELSE 1) + h[2] + Cardinality(h[3])) % 2

\* Block.IsGood: the first bytes of the hash are zero.
IsGood(b) == LeadingBytes(BlockHash(b)) = 0

\* InitFakeBlockNode: the genesis node.
InitFakeBlockNode == [hash |-> ZeroHash, parent |-> ZeroHash, depth |-> 0, txSet |-> {}]

\* InitBlockNode: the node of a block under its parent node.
InitBlockNode(parentNode, block) ==
    [hash |-> BlockHash(block), parent |-> parentNode.hash,
     depth |-> parentNode.depth + 1, txSet |-> block.Transactions]

isFake(node) == node.hash = ZeroHash

\* The nodes from a node up to the genesis, the node first.
RECURSIVE Branch(_, _)
Branch(blocks, node) ==
    IF isFake(node) THEN <<node>> ELSE <<node>> \o Branch(blocks, blocks[node.parent])

\* getLSA: the deepest node on the branches of both nodes.
getLSA(blocks, a, b) ==
    LET common == Range(Branch(blocks, a)) \cap Range(Branch(blocks, b))
    IN  CHOOSE l \in common : \A m \in common : m.depth <= l.depth

\* The transactions of the nodes from a node up to, not including, an ancestor.
TxsDownTo(blocks, node, lsa) ==
    UNION {m.txSet : m \in {k \in Range(Branch(blocks, node)) : k.depth > lsa.depth}}

\* TransactionsSet.subtract and TransactionsSet.union.
subtract(set, other) == set \ other
union(set, other) == set \cup other
contains(set, tx) == tx \in set
containsFilename(set, name) == \E t \in set : t.Name = name

InitBlockchainManager ==
    [tail |-> InitFakeBlockNode,
     blocks |-> (ZeroHash :> InitFakeBlockNode),
     pendingTx |-> {}]

\* addBlock without the check of line 47: a known block is attached again.
addBlock_again(m, block) ==
    IF block.PrevHash \notin DOMAIN m.blocks \/ ~IsGood(block)
    THEN [bm |-> m, ok |-> FALSE]
    ELSE LET node == InitBlockNode(m.blocks[block.PrevHash], block)
         IN  [bm |-> [tail |-> node,
                      blocks |-> (BlockHash(block) :> node) @@ m.blocks,
                      pendingTx |-> subtract(m.pendingTx, node.txSet)],
              ok |-> TRUE]

\* addBlock: the manager after the call and the value returned.
addBlock(m, block) ==
    LET h == BlockHash(block) IN
    IF h \in DOMAIN m.blocks THEN [bm |-> m, ok |-> FALSE]
    ELSE IF block.PrevHash \notin DOMAIN m.blocks THEN [bm |-> m, ok |-> FALSE]
    ELSE IF ~IsGood(block) THEN [bm |-> m, ok |-> FALSE]
    ELSE IF block.PrevHash = m.tail.hash
    THEN LET node == InitBlockNode(m.tail, block)
         IN  [bm |-> [tail |-> node,
                      blocks |-> (h :> node) @@ m.blocks,
                      pendingTx |-> subtract(m.pendingTx, node.txSet)],
              ok |-> TRUE]
    ELSE LET parentNode == m.blocks[block.PrevHash] IN
         IF parentNode.depth < m.tail.depth
         THEN [bm |-> [m EXCEPT !.blocks = (h :> InitBlockNode(parentNode, block)) @@ @],
               ok |-> TRUE]
         ELSE LET lsa == getLSA(m.blocks, m.tail, parentNode)
                  rolledBack == union(m.pendingTx, TxsDownTo(m.blocks, m.tail, lsa))
                  newBlock == InitBlockNode(parentNode, block)
                  blocks == (h :> newBlock) @@ m.blocks
              IN  [bm |-> [tail |-> m.tail,
                           blocks |-> blocks,
                           pendingTx |-> subtract(rolledBack, TxsDownTo(blocks, newBlock, lsa))],
                   ok |-> TRUE]

\* The transactions of the official history, tail to genesis.
History(m) == UNION {k.txSet : k \in Range(Branch(m.blocks, m.tail))}

\* addTransaction without the walk along the official history.
addTransaction_pendingOnly(m, tx) ==
    IF contains(m.pendingTx, tx) THEN [bm |-> m, ok |-> FALSE]
    ELSE IF containsFilename(m.pendingTx, tx.Name) THEN [bm |-> m, ok |-> FALSE]
    ELSE [bm |-> [m EXCEPT !.pendingTx = union(@, {tx})], ok |-> TRUE]

\* addTransaction: the manager after the call and the value returned.
addTransaction(m, tx) ==
    IF contains(m.pendingTx, tx) THEN [bm |-> m, ok |-> FALSE]
    ELSE IF containsFilename(m.pendingTx, tx.Name) THEN [bm |-> m, ok |-> FALSE]
    ELSE IF contains(History(m), tx) \/ containsFilename(History(m), tx.Name)
    THEN [bm |-> m, ok |-> FALSE]
    ELSE [bm |-> [m EXCEPT !.pendingTx = union(@, {tx})], ok |-> TRUE]

\* The largest HopLimit. HopLimit is a uint32; the model checker's integers end
\* at 2^31 - 1, which stands here for 2^32 - 1.
MaxUint32 == 2147483647

\* HopLimit - 1 on a uint32: below zero it wraps.
decrementHopLimit(h) == IF h = 0 THEN MaxUint32 ELSE h - 1

\* sendAllPeers: one copy of the packet per peer, in the order of the slice.
sendAllPeers(ps, pkt) == [i \in 1..Len(ps) |-> [dst |-> ps[i], pkt |-> pkt]]

\* The gossiper names a packet can carry: this node's, a known origin's and
\* one no rumor ever came from.
Names == {"X", "A", "Z"}

\* ------------------------------------------------------- one node, SpecGossip

\* The node of SpecGossip and the outside peers that send it datagrams.
Self == "x"

OutsidePeers == {"p", "q"}

InitNode(origins, k) ==
    /\ peers = [n \in {Self} |-> <<"p">>]
    /\ nextHop = [n \in {Self} |-> [o \in origins |-> None]]
    /\ store = [n \in {Self} |-> [o \in origins |-> <<>>]]
    /\ statusesChannels = [n \in {Self} |-> [p \in OutsidePeers |-> 0]]
    /\ threads = [n \in {Self} |-> {}]
    /\ disp = [n \in {Self} |-> Idle]
    /\ net = {}
    /\ last = Handled(Self, "init", None, None, 0)
    /\ out = <<>>
    /\ pool = [n \in {Self} |-> k]
    /\ bm = InitBlockchainManager
    /\ miner = [pc |-> "mine"]
    /\ privateMessages = [n \in {Self} |-> <<>>]
    /\ sharedFiles = [n \in {Self} |-> {}]
    /\ recentSearchRequests = [n \in {Self} |-> {}]
    /\ downloadingFilesChannels = [n \in {Self} |-> [o \in Names |-> 0]]
    /\ currentSearchRequest = [n \in {Self} |-> <<>>]
    /\ downloadingFiles = [n \in {Self} |-> <<>>]
    /\ downloadTasks = [n \in {Self} |-> {}]
    /\ searchTasks = [n \in {Self} |-> {}]

InitGossip == InitNode({"A", "X"}, MaxThreads)

ClientSendsRumor == \E text \in Texts : ClientRumor(Self, text, MaxId)

OutsideRumor ==
    \E from \in OutsidePeers, r \in Rumors(MaxId) : PeerRumor(Self, from, r, {})

OutsideStatus ==
    \E from \in OutsidePeers, sp \in Statuses(MaxId) : PeerStatus(Self, from, sp, {})

Goroutines ==
    \/ Handoff(Self)
    \/ Timeout(Self)
    \/ TimeoutCleanup(Self)
    \/ TimeoutCoin(Self)
    \/ StatusResend(Self)
    \/ StatusBehind(Self)
    \/ StatusInSync(Self)

NextGossip ==
    \/ ClientSendsRumor
    \/ OutsideRumor
    \/ OutsideStatus
    \/ Goroutines

SpecGossip == InitGossip /\ [][NextGossip]_vars

\* ------------------------------------------ one node, its sessions: SpecSession

InitSession == InitNode({"A"}, SessionThreads)

SessionRumor ==
    \E from \in OutsidePeers, r \in Rumors(SessionMaxId) : PeerRumor(Self, from, r, {})

SessionStatus ==
    \E from \in OutsidePeers, sp \in Statuses(SessionMaxId) :
        PeerStatus(Self, from, sp, {})

NextSession ==
    \/ SessionRumor
    \/ SessionStatus
    \/ Goroutines

SpecSession == InitSession /\ [][NextSession]_vars

\* ----------------------------------------------- one node, its chain: SpecChain

\* BlockchainBlockPublishHopLimit of the configuration.
BlockchainBlockPublishHopLimit == MaxHop

TxPublishPacket(tx, hop) == [kind |-> "tx", File |-> tx, HopLimit |-> hop]
BlockPublishPacket(b, hop) == [kind |-> "block", Block |-> b, HopLimit |-> hop]

\* The input of a step that is not a rumor or a status.
HandledPacket(n, kind, from, pkt, isNew) ==
    [node |-> n, kind |-> kind, from |-> from, pkt |-> pkt, isNew |-> isNew]

\* The warning addBlock logs when it returns false, "none" when it does not.
addBlockWarning(m, block) ==
    IF BlockHash(block) \in DOMAIN m.blocks THEN "block was already received"
    ELSE IF block.PrevHash \notin DOMAIN m.blocks THEN "parent of block isn't known"
    ELSE IF ~IsGood(block) THEN "block is malicious"
    ELSE "none"

\* What is kept of a block publication: all of an accepted one; the kind and
\* the warning of a rejected one.
Seen(pkt, isNew, warning) ==
    IF isNew THEN pkt ELSE [kind |-> pkt.kind, warning |-> warning]

\* What is kept of a transaction publication: all of an accepted one; the
\* kind and the file of a rejected one.
SeenTx(pkt, isNew) ==
    IF isNew THEN pkt ELSE [kind |-> pkt.kind, File |-> pkt.File]

\* The blocks a peer can publish: under a known block or under an unknown one.
Blocks(m) ==
    [PrevHash : DOMAIN m.blocks \cup {<<ZeroHash, MaxNonce + 1, {}>>},
     Nonce : Nonces,
     Transactions : {{}} \cup {{t} : t \in Txs}]

\* What the chain actions leave alone.
chainFrame == <<nextHop, store, statusesChannels, threads, disp, net, pool, fileVars,
               downloadVars>>

\* processTxPublish that sends the transaction on without asking whether it
\* was new.
processTxPublish_flood(n, from, tx, hop) ==
    LET r == addTransaction(bm, tx) IN
    /\ disp[n].pc = "idle"
    /\ peers' = [peers EXCEPT ![n] = UpdatePeersIfNeeded(@, from)]
    /\ bm' = r.bm
    /\ out' = IF ~(hop <= 0)
              THEN sendAllPeers(peers'[n], TxPublishPacket(tx, decrementHopLimit(hop)))
              ELSE <<>>
    /\ last' = HandledPacket(n, "tx", from, SeenTx(TxPublishPacket(tx, hop), r.ok), r.ok)
    /\ UNCHANGED <<miner, chainFrame>>

\* processAddressedGossipPacket with a TxPublish: processTxPublish.
processTxPublish(n, from, tx, hop) ==
    LET r == addTransaction(bm, tx) IN
    /\ disp[n].pc = "idle"
    /\ peers' = [peers EXCEPT ![n] = UpdatePeersIfNeeded(@, from)]
    /\ bm' = r.bm
    /\ out' = IF r.ok /\ ~(hop <= 0)
              THEN sendAllPeers(peers'[n], TxPublishPacket(tx, decrementHopLimit(hop)))
              ELSE <<>>
    /\ last' = HandledPacket(n, "tx", from, SeenTx(TxPublishPacket(tx, hop), r.ok), r.ok)
    /\ UNCHANGED <<miner, chainFrame>>

\* processAddressedGossipPacket with a BlockPublish: processBlockPublish.
processBlockPublish(n, from, block, hop) ==
    LET r == addBlock(bm, block) IN
    /\ disp[n].pc = "idle"
    /\ r.ok => Cardinality(DOMAIN bm.blocks) < MaxBlocks
    /\ peers' = [peers EXCEPT ![n] = UpdatePeersIfNeeded(@, from)]
    /\ bm' = r.bm
    /\ out' = IF r.ok /\ ~(hop <= 0)
              THEN sendAllPeers(peers'[n], BlockPublishPacket(block, decrementHopLimit(hop)))
              ELSE <<>>
    /\ last' = HandledPacket(n, "block", from,
                             Seen(BlockPublishPacket(block, hop), r.ok,
                                  addBlockWarning(bm, block)),
                             r.ok)
    /\ UNCHANGED <<miner, chainFrame>>

\* The block of doMining with the transactions read before the lock.
minedBlock_stale(m, nonce) ==
    [PrevHash |-> m.tail.hash, Nonce |-> nonce, Transactions |-> miner.Transactions]

\* The block doMining builds from the tail and the pending transactions.
minedBlock(m, nonce) ==
    [PrevHash |-> m.tail.hash, Nonce |-> nonce, Transactions |-> m.pendingTx]

\* doMining before the lock reads pending and the tail without the lock, in
\* three reads that other threads' writes can fall between. The first read:
\* pending is not empty.
MinerChecksPending(n) ==
    /\ miner.pc = "mine"
    /\ Cardinality(DOMAIN bm.blocks) < MaxBlocks
    /\ bm.pendingTx # {}
    /\ miner' = [pc |-> "copy"]
    /\ last' = HandledPacket(n, "mining", None, None, FALSE)
    /\ out' = <<>>
    /\ UNCHANGED <<peers, bm, chainFrame>>

\* The second read: the copy of pending.
MinerCopiesPending(n) ==
    /\ miner.pc = "copy"
    /\ miner' = [pc |-> "tail", Transactions |-> bm.pendingTx]
    /\ last' = HandledPacket(n, "mining", None, None, FALSE)
    /\ out' = <<>>
    /\ UNCHANGED <<peers, bm, chainFrame>>

\* The third read, the hash of the tail, and the check of the block built
\* from the two reads and a random nonce: a good block leads to the lock, a
\* bad one to the next attempt.
MinerFinds(n) ==
    /\ miner.pc = "tail"
    /\ \E nonce \in Nonces :
           LET newBlock == [PrevHash |-> bm.tail.hash, Nonce |-> nonce,
                            Transactions |-> miner.Transactions]
           IN  IF IsGood(newBlock) /\ Cardinality(DOMAIN bm.blocks) < MaxBlocks
               THEN miner' = [pc |-> "lock", Nonce |-> nonce,
                              Transactions |-> miner.Transactions]
               ELSE miner' = [pc |-> "mine"]
    /\ last' = HandledPacket(n, "mining", None, None, FALSE)
    /\ out' = <<>>
    /\ UNCHANGED <<peers, bm, chainFrame>>

\* The manager after doMining has committed a block.
commitMined(m, newBlock) ==
    LET node == InitBlockNode(m.tail, newBlock)
    IN  [tail |-> node,
         blocks |-> (BlockHash(newBlock) :> node) @@ m.blocks,
         pendingTx |-> {}]

\* The step that commits a mined block, with the transactions the miner had
\* read before the lock.
Mined(n, newBlock, transactionsCopy) ==
    [node |-> n, kind |-> "mined", from |-> None,
     pkt |-> BlockPublishPacket(newBlock, BlockchainBlockPublishHopLimit),
     isNew |-> TRUE, transactionsCopy |-> transactionsCopy]

\* doMining that commits under the lock without checking the block again.
MinerCommits_unchecked(n) ==
    /\ miner.pc = "lock"
    /\ LET newBlock == minedBlock(bm, miner.Nonce) IN
       /\ miner' = [pc |-> "publish", block |-> newBlock]
       /\ bm' = commitMined(bm, newBlock)
       /\ last' = Mined(n, newBlock, miner.Transactions)
    /\ out' = <<>>
    /\ UNCHANGED <<peers, chainFrame>>

\* doMining under the lock: the block is built again and checked again.
MinerCommits(n) ==
    /\ miner.pc = "lock"
    /\ LET newBlock == minedBlock(bm, miner.Nonce) IN
       IF ~IsGood(newBlock)
       THEN /\ miner' = [pc |-> "mine"]
            /\ bm' = bm
            /\ last' = HandledPacket(n, "mining", None, None, FALSE)
       ELSE /\ miner' = [pc |-> "publish", block |-> newBlock]
            /\ bm' = commitMined(bm, newBlock)
            /\ last' = Mined(n, newBlock, miner.Transactions)
    /\ out' = <<>>
    /\ UNCHANGED <<peers, chainFrame>>

\* StartMiningThread after DoMining has returned: the block goes to every peer.
MinerPublishes(n) ==
    /\ miner.pc = "publish"
    /\ out' = sendAllPeers(peers[n],
                           BlockPublishPacket(miner.block, BlockchainBlockPublishHopLimit))
    /\ miner' = [pc |-> "mine"]
    /\ last' = HandledPacket(n, "publish", None, None, FALSE)
    /\ UNCHANGED <<peers, bm, chainFrame>>

\* The peer that publishes to the node of SpecChain.
ChainPeers == {"q"}

InitChain == InitNode({"A"}, 1)

OutsideTx ==
    \E from \in ChainPeers, tx \in Txs, hop \in 0..MaxHop :
        processTxPublish(Self, from, tx, hop)

OutsideBlock ==
    \E from \in ChainPeers, block \in Blocks(bm), hop \in 0..MaxHop :
        processBlockPublish(Self, from, block, hop)

NextChain ==
    \/ OutsideTx
    \/ OutsideBlock
    \/ MinerChecksPending(Self)
    \/ MinerCopiesPending(Self)
    \/ MinerFinds(Self)
    \/ MinerCommits(Self)
    \/ MinerPublishes(Self)

SpecChain == InitChain /\ [][NextChain]_vars

\* ------------------------------------- one node, unicast packets: SpecForward

FwdMaxId == 2
MaxPrivate == 1
MaxBudget == 2

\* DefaultHopLimit of the configuration.
DefaultHopLimit == MaxHop

\* The file a client can ask the node to share, as shareFile reads it: its
\* name, the hash of its metafile, the metafile (the chunk hashes in order)
\* and the chunks by hash.
FilesOnDisk ==
    {[Name |-> "f", MetaHash |-> 1, MetaSlice |-> <<2>>, Chunks |-> (2 :> 7)]}

HashValues == {1, 2, 3}

\* g.nextHop[origin], nil when the map has no such key.
NextHopOf(nh, origin) == IF origin \in DOMAIN nh THEN nh[origin] ELSE None

\* sendPacketWithNextHop: what goes on peerMessagesToSend.
sendPacketWithNextHop(nh, origin, pkt) ==
    IF NextHopOf(nh, origin) # None
    THEN <<[dst |-> NextHopOf(nh, origin), pkt |-> pkt]>>
    ELSE <<>>

\* The hop limit check that is never taken.
hopLimitExceeded_never(h) == FALSE

\* The check before a packet for another node is forwarded.
hopLimitExceeded(h) == h <= 0

\* The forwarding common to the four addressed packets: drop at hop limit 0,
\* else one hop less, to the next hop of the destination.
forwardFurther(nh, pkt) ==
    IF hopLimitExceeded(pkt.HopLimit) THEN <<>>
    ELSE sendPacketWithNextHop(nh, pkt.Destination,
                               [pkt EXCEPT !.HopLimit = decrementHopLimit(@)])

\* The packets peers send in SpecForward.
Privates ==
    [kind : {"private"}, Origin : {"A"}, ID : {0}, Text : {"hi"},
     Destination : Names, HopLimit : 0..MaxHop]

DataRequests ==
    [kind : {"dataRequest"}, Origin : {"A"}, Destination : Names,
     HopLimit : 0..MaxHop, HashValue : HashValues]

DataReplies ==
    [kind : {"dataReply"}, Origin : {"A"}, Destination : Names,
     HopLimit : 0..MaxHop, HashValue : {1}, Data : {<<2>>}]

SearchReplies ==
    [kind : {"searchReply"}, Origin : {"A"}, Destination : Names,
     HopLimit : 0..MaxHop, Results : {<<>>}]

SearchRequests ==
    [kind : {"searchRequest"}, Origin : {"A", "X"}, Budget : 0..MaxBudget,
     Keywords : {<<"f">>}]

\* What the unicast handlers leave alone.
fwdFrame == <<store, statusesChannels, threads, net, pool, bm, miner, downloadVars>>

\* The same for the handlers of DataRequest and DataReply, without what is in
\* flight between the nodes: the runs say what becomes of their output.
dataFrame == <<store, statusesChannels, threads, pool, bm, miner, downloadVars>>

\* MessageStorage.AddPrivateMessage.
AddPrivateMessage(log, pmsg, name) == Append(log, pmsg)

\* The next hop learnt from a private message.
nextHopAfterPrivate_learn(nh, pmsg, address) ==
    IF pmsg.Origin \in DOMAIN nh THEN updateNextHop(nh, pmsg.Origin, address) ELSE nh

\* processAddressedPrivateMessage: the update of the next hop is commented out.
nextHopAfterPrivate(nh, pmsg, address) == nh

\* processPrivateMessage.
processPrivateMessage(n, pmsg) ==
    IF pmsg.Destination = NameOf(n)
    THEN /\ Len(privateMessages[n]) < MaxPrivate
         /\ privateMessages' = [privateMessages EXCEPT ![n] = AddPrivateMessage(@, pmsg, NameOf(n))]
         /\ out' = <<>>
    ELSE /\ out' = forwardFurther(nextHop'[n], pmsg)
         /\ UNCHANGED privateMessages

\* processAddressedGossipPacket with a Private.
PeerPrivate(n, from, pmsg) ==
    /\ disp[n].pc = "idle"
    /\ peers' = [peers EXCEPT ![n] = UpdatePeersIfNeeded(@, from)]
    /\ nextHop' = [nextHop EXCEPT ![n] = nextHopAfterPrivate(@, pmsg, from)]
    /\ processPrivateMessage(n, pmsg)
    /\ last' = HandledPacket(n, "private", from, pmsg, FALSE)
    /\ UNCHANGED <<disp, sharedFiles, recentSearchRequests, downloadingFilesChannels,
                   currentSearchRequest, fwdFrame>>

\* processClientMessage with a Private.
ClientPrivate(n, destination) ==
    LET pmsg == [kind |-> "private", Origin |-> NameOf(n), ID |-> 0, Text |-> "hi",
                 Destination |-> destination, HopLimit |-> DefaultHopLimit]
    IN  /\ disp[n].pc = "idle"
        /\ nextHop' = nextHop
        /\ processPrivateMessage(n, pmsg)
        /\ last' = HandledPacket(n, "private", None, pmsg, FALSE)
        /\ UNCHANGED <<peers, disp, sharedFiles, recentSearchRequests,
                       downloadingFilesChannels, currentSearchRequest, fwdFrame>>

\* SharedFilesManager.GetChunkOrMetafile: the metafile or a chunk, None if
\* no shared file has the hash.
GetChunkOrMetafile(files, h) ==
    IF \E f \in files : f.MetaHash = h
    THEN (CHOOSE f \in files : f.MetaHash = h).MetaSlice
    ELSE IF \E f \in files : h \in DOMAIN f.Chunks
    THEN <<(CHOOSE f \in files : h \in DOMAIN f.Chunks).Chunks[h]>>
    ELSE None

\* DownloadingFile.fileHasDownloadedChunk.
fileHasDownloadedChunk(df, hashValue) ==
    IF df.Metafile = <<>> THEN FALSE
    ELSE \/ df.MetaHash = hashValue
         \/ /\ hashValue \in Range(df.ChunksHashesSlice)
            /\ hashValue \notin df.ChunksToDownload

\* getChunkOrMetafile that reads the metafile for a hash it has no chunk of.
getChunkOrMetafile_anyHash(df, hashValue) ==
    IF hashValue = df.MetaHash THEN df.Metafile
    ELSE IF fileHasDownloadedChunk(df, hashValue) /\ hashValue \in DOMAIN df.Chunks
    THEN <<df.Chunks[hashValue]>>
    ELSE df.Metafile

\* DownloadingFile.getChunkOrMetafile: the slice read, nil for a metafile
\* not received yet, a chunk not downloaded, a hash not of the file and a
\* chunk file that is not in the directory.
getChunkOrMetafile(df, hashValue) ==
    IF hashValue = df.MetaHash THEN df.Metafile
    ELSE IF fileHasDownloadedChunk(df, hashValue) /\ hashValue \in DOMAIN df.Chunks
    THEN <<df.Chunks[hashValue]>>
    ELSE <<>>

\* DownloadingFilesManager.GetChunkOrMetafile: what the downloads in progress
\* can give for the hash, one of them being returned.
DownloadingGetChunkOrMetafile(dfm, h) ==
    {getChunkOrMetafile(dfm[o], h)[1] :
        o \in {q \in DOMAIN dfm : getChunkOrMetafile(dfm[q], h) # <<>>}}

\* requestedData of processDataRequest: the shared files first, then the
\* downloading files; empty for nil.
requestedDataOf(n, h) ==
    IF GetChunkOrMetafile(sharedFiles[n], h) # None
    THEN {GetChunkOrMetafile(sharedFiles[n], h)}
    ELSE DownloadingGetChunkOrMetafile(downloadingFiles[n], h)

\* processAddressedGossipPacket with a DataRequest: processDataRequest.
PeerDataRequest(n, from, drqmsg) ==
    /\ disp[n].pc = "idle"
    /\ peers' = [peers EXCEPT ![n] = UpdatePeersIfNeeded(@, from)]
    /\ IF drqmsg.Destination = NameOf(n)
       THEN IF requestedDataOf(n, drqmsg.HashValue) = {}
            THEN out' = <<>>
            ELSE \E requestedData \in requestedDataOf(n, drqmsg.HashValue) :
                     out' = sendPacketWithNextHop(nextHop[n], drqmsg.Origin,
                                [kind |-> "dataReply", Origin |-> NameOf(n),
                                 Destination |-> drqmsg.Origin, HopLimit |-> DefaultHopLimit,
                                 HashValue |-> drqmsg.HashValue, Data |-> requestedData])
       ELSE out' = forwardFurther(nextHop[n], drqmsg)
    /\ last' = HandledPacket(n, "dataRequest", from, drqmsg, FALSE)
    /\ UNCHANGED <<nextHop, disp, fileVars, dataFrame>>

\* processAddressedGossipPacket with a DataReply: processDataReply.
PeerDataReply(n, from, drpmsg) ==
    /\ disp[n].pc = "idle"
    /\ peers' = [peers EXCEPT ![n] = UpdatePeersIfNeeded(@, from)]
    /\ IF drpmsg.Destination # NameOf(n)
       THEN /\ out' = forwardFurther(nextHop[n], drpmsg)
            /\ UNCHANGED disp
       ELSE /\ out' = <<>>
            /\ disp' = IF downloadingFilesChannels[n][drpmsg.Origin] # 0
                       THEN [disp EXCEPT ![n] = [pc |-> "sendDataReply",
                                                 ch |-> downloadingFilesChannels[n][drpmsg.Origin],
                                                 drpmsg |-> drpmsg]]
                       ELSE disp
    /\ last' = HandledPacket(n, "dataReply", from, drpmsg, FALSE)
    /\ UNCHANGED <<nextHop, fileVars, dataFrame>>

\* processAddressedGossipPacket with a SearchReply: processAddressedSearchReply.
PeerSearchReply(n, from, srpmsg) ==
    /\ disp[n].pc = "idle"
    /\ peers' = [peers EXCEPT ![n] = UpdatePeersIfNeeded(@, from)]
    /\ IF srpmsg.Destination # NameOf(n)
       THEN /\ out' = forwardFurther(nextHop[n], srpmsg)
            /\ UNCHANGED disp
       ELSE /\ out' = <<>>
            /\ disp' = IF currentSearchRequest[n] # <<>> /\ currentSearchRequest[n][1].isAlive
                       THEN [disp EXCEPT ![n] = [pc |-> "sendSearchReply",
                                                 ch |-> currentSearchRequest[n][1].ch,
                                                 srpmsg |-> srpmsg]]
                       ELSE disp
    /\ last' = HandledPacket(n, "searchReply", from, srpmsg, FALSE)
    /\ UNCHANGED <<nextHop, fileVars, fwdFrame>>

\* GetRecentSearchRequestSetKey.
GetRecentSearchRequestSetKey(origin, keywords) == <<origin, keywords>>

\* sharedFile.getSearchResults over the shared files: one result per keyword
\* found in the name.
GetSearchResults(files, keywords) ==
    LET matching == {f \in files : \E i \in 1..Len(keywords) : keywords[i] = f.Name}
    IN  IF matching = {} THEN <<>>
        ELSE LET f == CHOOSE g \in matching : TRUE
             IN  <<[FileName |-> f.Name, MetafileHash |-> f.MetaHash,
                    ChunkCount |-> Cardinality(DOMAIN f.Chunks)]>>

\* The split that gives the extra one to one peer less.
spreadBudget_oneless(ps, srqmsg, budget) ==
    [i \in 1..Len(ps) |->
        [dst |-> ps[i],
         pkt |-> [srqmsg EXCEPT !.Budget = (budget \div Len(ps))
                                            + (IF i < budget % Len(ps) THEN 1 ELSE 0)]]]

\* The search requests processSearchRequest sends on: the budget split over
\* the peers, the first budget % len(peers) of them getting one more.
spreadBudget(ps, srqmsg, budget) ==
    [i \in 1..Len(ps) |->
        [dst |-> ps[i],
         pkt |-> [srqmsg EXCEPT !.Budget = (budget \div Len(ps))
                                            + (IF i <= budget % Len(ps) THEN 1 ELSE 0)]]]

\* processSearchRequest for a request of another node.
processSearchRequest(n, ps, srqmsg) ==
    IF srqmsg.Origin # NameOf(n)
    THEN LET matchedFiles == GetSearchResults(sharedFiles[n], srqmsg.Keywords)
             reply == IF Len(matchedFiles) > 0
                      THEN sendPacketWithNextHop(nextHop[n], srqmsg.Origin,
                               [kind |-> "searchReply", Origin |-> NameOf(n),
                                Destination |-> srqmsg.Origin, HopLimit |-> DefaultHopLimit,
                                Results |-> matchedFiles])
                      ELSE <<>>
         IN  IF srqmsg.Budget - 1 <= 0 THEN reply
             ELSE reply \o spreadBudget(ps, srqmsg, srqmsg.Budget - 1)
    ELSE spreadBudget(ps, srqmsg, srqmsg.Budget)

\* The handler that does not look into the map of the recent requests.
PeerSearchRequest_again(n, from, srqmsg) ==
    LET setkey == GetRecentSearchRequestSetKey(srqmsg.Origin, srqmsg.Keywords) IN
    /\ disp[n].pc = "idle"
    /\ peers' = [peers EXCEPT ![n] = UpdatePeersIfNeeded(@, from)]
    /\ recentSearchRequests' = [recentSearchRequests EXCEPT ![n] = @ \cup {setkey}]
    /\ out' = processSearchRequest(n, peers'[n], srqmsg)
    /\ last' = HandledPacket(n, "searchRequest", from, srqmsg, setkey \notin recentSearchRequests[n])
    /\ UNCHANGED <<nextHop, disp, privateMessages, sharedFiles, downloadingFilesChannels,
                   currentSearchRequest, fwdFrame>>

\* processAddressedGossipPacket with a SearchRequest:
\* processAddressedSearchRequest.
PeerSearchRequest(n, from, srqmsg) ==
    LET setkey == GetRecentSearchRequestSetKey(srqmsg.Origin, srqmsg.Keywords) IN
    /\ disp[n].pc = "idle"
    /\ peers' = [peers EXCEPT ![n] = UpdatePeersIfNeeded(@, from)]
    /\ IF setkey \in recentSearchRequests[n]
       THEN /\ out' = <<>>
            /\ UNCHANGED recentSearchRequests
       ELSE /\ recentSearchRequests' = [recentSearchRequests EXCEPT ![n] = @ \cup {setkey}]
            /\ out' = processSearchRequest(n, peers'[n], srqmsg)
    /\ last' = HandledPacket(n, "searchRequest", from, srqmsg, setkey \notin recentSearchRequests[n])
    /\ UNCHANGED <<nextHop, disp, privateMessages, sharedFiles, downloadingFilesChannels,
                   currentSearchRequest, fwdFrame>>

\* The search-request-timeout goroutine: the key leaves the map.
RecentSearchRequestTimeout(n) ==
    \E setkey \in recentSearchRequests[n] :
        /\ recentSearchRequests' = [recentSearchRequests EXCEPT ![n] = @ \ {setkey}]
        /\ last' = HandledPacket(n, "searchTimeout", None, setkey, FALSE)
        /\ out' = <<>>
        /\ UNCHANGED <<peers, nextHop, disp, privateMessages, sharedFiles,
                       downloadingFilesChannels, currentSearchRequest, fwdFrame>>

\* processClientMessage with a ToShare: processClientToShare.
ClientToShare(n, file) ==
    LET tx == [Name |-> file.Name, MetafileHash |-> file.MetaHash]
        r == addTransaction(bm, tx)
    IN  /\ disp[n].pc = "idle"
        /\ \A f \in sharedFiles[n] : f.Name # file.Name
        /\ sharedFiles' = [sharedFiles EXCEPT ![n] = @ \cup {file}]
        /\ bm' = r.bm
        /\ out' = IF r.ok THEN sendAllPeers(peers[n], TxPublishPacket(tx, MaxHop)) ELSE <<>>
        /\ last' = HandledPacket(n, "share", None, None, r.ok)
        /\ UNCHANGED <<peers, nextHop, disp, privateMessages, recentSearchRequests,
                       downloadingFilesChannels, currentSearchRequest,
                       store, statusesChannels, threads, net, pool, miner, downloadVars>>

\* The peer the unicast packets of SpecForward come from.
FwdPeers == {"q"}

InitForward == InitNode({"A"}, 1)

ForwardRumor ==
    \E from \in OutsidePeers, r \in Rumors(FwdMaxId) : PeerRumor(Self, from, r, {})

ForwardTimeouts ==
    \/ Timeout(Self)
    \/ TimeoutCleanup(Self)
    \/ TimeoutCoin(Self)

OutsidePrivate ==
    \E from \in FwdPeers, pmsg \in Privates : PeerPrivate(Self, from, pmsg)

ClientSendsPrivate ==
    \E destination \in Names : ClientPrivate(Self, destination)

OutsideDataRequest ==
    /\ \E from \in FwdPeers, drqmsg \in DataRequests : PeerDataRequest(Self, from, drqmsg)
    /\ UNCHANGED net

OutsideDataReply ==
    /\ \E from \in FwdPeers, drpmsg \in DataReplies : PeerDataReply(Self, from, drpmsg)
    /\ UNCHANGED net

OutsideSearchRequest ==
    \E from \in FwdPeers, srqmsg \in SearchRequests : PeerSearchRequest(Self, from, srqmsg)

OutsideSearchReply ==
    \E from \in FwdPeers, srpmsg \in SearchReplies : PeerSearchReply(Self, from, srpmsg)

ClientShares ==
    \E file \in FilesOnDisk : ClientToShare(Self, file)

NextForward ==
    \/ ForwardRumor
    \/ ForwardTimeouts
    \/ OutsidePrivate
    \/ ClientSendsPrivate
    \/ OutsideDataRequest
    \/ OutsideDataReply
    \/ OutsideSearchRequest
    \/ OutsideSearchReply
    \/ RecentSearchRequestTimeout(Self)
    \/ ClientShares

SpecForward == InitForward /\ [][NextForward]_vars

\* ------------------------------------------ a line of three nodes: SpecLine

LineMaxId == 1

\* The line a - b - c: the peers each node starts with.
LinePeers == [a |-> <<"b">>, b |-> <<"a", "c">>, c |-> <<"b">>]

LineNodes == {"a", "b", "c"}

InitLine ==
    /\ peers = LinePeers
    /\ nextHop = [n \in LineNodes |-> [o \in {"A"} |-> None]]
    /\ store = [n \in LineNodes |-> [o \in {"A"} |-> <<>>]]
    /\ statusesChannels = [n \in LineNodes |-> [p \in LineNodes |-> 0]]
    /\ threads = [n \in LineNodes |-> {}]
    /\ disp = [n \in LineNodes |-> Idle]
    /\ net = {}
    /\ last = Handled("a", "init", None, None, 0)
    /\ out = <<>>
    /\ pool = [n \in LineNodes |-> Len(LinePeers[n])]
    /\ bm = InitBlockchainManager
    /\ miner = [pc |-> "mine"]
    /\ privateMessages = [n \in LineNodes |-> <<>>]
    /\ sharedFiles = [n \in LineNodes |-> {}]
    /\ recentSearchRequests = [n \in LineNodes |-> {}]
    /\ downloadingFilesChannels = [n \in LineNodes |-> [o \in Names |-> 0]]
    /\ currentSearchRequest = [n \in LineNodes |-> <<>>]
    /\ searchTasks = [n \in LineNodes |-> {}]
    /\ downloadingFiles = [n \in LineNodes |-> <<>>]
    /\ downloadTasks = [n \in LineNodes |-> {}]

\* The client of a publishes its rumor.
LineClient == ClientRumor("a", "hi", LineMaxId)

\* StartPeerReader and the message processor of n: a datagram for n is read
\* and handled.
DeliverRumor(n) ==
    \E d \in net :
        /\ d.dst = n
        /\ d.pkt.kind = "rumor"
        /\ PeerRumor(n, d.src, d.pkt.rmsg, {d})

DeliverStatus(n) ==
    \E d \in net :
        /\ d.dst = n
        /\ d.pkt.kind = "status"
        /\ PeerStatus(n, d.src, d.pkt.want, {d})

\* StartAntiEntropyTimer: the status goes to a random peer.  The timer's period
\* is longer than the flight of a datagram: none of n is on its way.
AntiEntropy(n) ==
    /\ Len(peers[n]) > 0
    /\ \A d \in net : d.src # n
    /\ \E peer \in Range(peers[n]) :
           out' = <<[dst |-> peer, pkt |-> StatusPacket(GetCurrentStatusPacket(store[n]))]>>
    /\ net' = net \cup Datagrams(n, out')
    /\ Cardinality(net') <= MaxFlight
    /\ last' = Handled(n, "antiEntropy", None, None, 0)
    /\ UNCHANGED <<peers, nextHop, store, statusesChannels, threads, disp, pool, beyondGossip>>

\* The steps of the nodes of the line.  With the one rumor of the line no
\* session meets a peer that knows more, so StatusBehind has no step here.
LineDeliverRumor == \E n \in LineNodes : DeliverRumor(n)
LineDeliverStatus == \E n \in LineNodes : DeliverStatus(n)
LineAntiEntropy == \E n \in LineNodes : AntiEntropy(n)
LineHandoff == \E n \in LineNodes : Handoff(n)
LineTimeout == \E n \in LineNodes : Timeout(n)
LineTimeoutCleanup == \E n \in LineNodes : TimeoutCleanup(n)
LineTimeoutCoin == \E n \in LineNodes : TimeoutCoin(n)
LineStatusResend == \E n \in LineNodes : StatusResend(n)
LineStatusInSync == \E n \in LineNodes : StatusInSync(n)

NextLine ==
    \/ LineClient
    \/ LineDeliverRumor
    \/ LineDeliverStatus
    \/ LineAntiEntropy
    \/ LineHandoff
    \/ LineTimeout
    \/ LineTimeoutCleanup
    \/ LineTimeoutCoin
    \/ LineStatusResend
    \/ LineStatusInSync

SpecLine == InitLine /\ [][NextLine]_vars

\* --------------------------------------- one node, its downloads: SpecDownload

\* The timeouts in a row after which the run lets a download be given up.
MaxRetries == 2

\* FileDownloadTimeoutsLimit of the configuration.
FileDownloadTimeoutsLimit == MaxRetries

\* Data is a sequence of words. A word below HashModulus is a block of 32
\* bytes, the size of a hash; a larger word is a shorter run of bytes.
HashModulus == 7

\* sha256.Sum256 over the words of the data, folded into one word.
RECURSIVE sha256(_)
sha256(data) ==
    IF data = <<>> THEN 0
    ELSE (3 * (sha256(SubSeq(data, 1, Len(data) - 1)) + data[Len(data)]) + 2) % HashModulus

\* len(metafile) % 32 = 0: the data is a whole number of 32-byte blocks.
WholeBlocks(data) == \A i \in 1..Len(data) : data[i] < HashModulus

\* A slice that is nil, and one that holds data (of any length).
Nil == <<>>
Slice(data) == <<data>>

\* InitDownloadingFile: the name and the metahash, all others nil. Chunks is
\* the directory of the chunks written so far, File the assembled file.
InitDownloadingFile(name, metahash) ==
    [Name |-> name, MetaHash |-> metahash, Metafile |-> Nil,
     ChunksHashesSlice |-> <<>>, ChunksToDownload |-> {},
     Chunks |-> <<>>, File |-> Nil]

\* DownloadingFile.gotMetafile.
gotMetafile(df, hashValue, metafile) ==
    IF ~WholeBlocks(metafile) \/ hashValue # df.MetaHash THEN df
    ELSE [df EXCEPT !.Metafile = Slice(metafile),
                    !.ChunksHashesSlice = metafile,
                    !.ChunksToDownload = Range(metafile)]

\* finishDownloading that appends the chunks from the last hash to the first.
RECURSIVE composeFile_backwards(_, _)
composeFile_backwards(hashes, chunks) ==
    IF hashes = <<>> THEN <<>>
    ELSE composeFile_backwards(Tail(hashes), chunks) \o chunks[Head(hashes)]

\* The chunks of the directory, in the order of the hashes.
RECURSIVE composeFile(_, _)
composeFile(hashes, chunks) ==
    IF hashes = <<>> THEN <<>>
    ELSE chunks[Head(hashes)] \o composeFile(Tail(hashes), chunks)

\* DownloadingFile.finishDownloading.
finishDownloading(df) ==
    [df EXCEPT !.File = Slice(composeFile(df.ChunksHashesSlice, df.Chunks))]

\* DownloadingFile.ProcessDataReply: the file after the call and what is
\* returned, "nil", "false" or "true".
ProcessDataReply(df, drpmsg) ==
    IF sha256(drpmsg.Data) # drpmsg.HashValue THEN [df |-> df, isFinished |-> "nil"]
    ELSE IF df.Metafile = Nil
    THEN [df |-> gotMetafile(df, drpmsg.HashValue, drpmsg.Data), isFinished |-> "false"]
    ELSE IF drpmsg.HashValue \notin df.ChunksToDownload
    THEN [df |-> df, isFinished |-> "nil"]
    ELSE LET got == [df EXCEPT !.ChunksToDownload = @ \ {drpmsg.HashValue},
                               !.Chunks = (drpmsg.HashValue :> drpmsg.Data) @@ @]
         IN  IF got.ChunksToDownload = {}
             THEN [df |-> finishDownloading(got), isFinished |-> "true"]
             ELSE [df |-> got, isFinished |-> "false"]

\* DownloadingFile.getDataRequest: the hashes the range over the map can
\* give first; none when everything is downloaded.
getDataRequest(df) == df.ChunksToDownload

\* DownloadingFilesManager.StartDownloadingFromOrigin: false when a download
\* from the origin is in progress.
StartDownloadingFromOrigin(dfm, origin, name, metahash) ==
    IF origin \in DOMAIN dfm THEN [dfm |-> dfm, ok |-> FALSE]
    ELSE [dfm |-> (origin :> InitDownloadingFile(name, metahash)) @@ dfm, ok |-> TRUE]

\* DownloadingFilesManager.DropDownloading.
DropDownloading(dfm, origin) == [o \in DOMAIN dfm \ {origin} |-> dfm[o]]

\* DownloadingFilesManager.ProcessDataReply: a finished download is no longer
\* in progress.
ManagerProcessDataReply(dfm, origin, drpmsg) ==
    LET r == ProcessDataReply(dfm[origin], drpmsg)
    IN  [dfm |-> IF r.isFinished = "true" THEN DropDownloading(dfm, origin)
                 ELSE [dfm EXCEPT ![origin] = r.df],
         isFinished |-> r.isFinished]

\* DownloadingFilesManager.GetDataRequestHash.
GetDataRequestHash(dfm, origin) ==
    IF origin \notin DOMAIN dfm THEN {} ELSE getDataRequest(dfm[origin])

\* The DataRequest of a download.
DownloadRequest(n, origin, hashValue) ==
    [kind |-> "dataRequest", Origin |-> NameOf(n), Destination |-> origin,
     HopLimit |-> DefaultHopLimit, HashValue |-> hashValue]

\* The step of a download: the client's request or a step of the goroutine.
DownloadStep(n, kind, origin, hashValue, isNew) ==
    [node |-> n, kind |-> kind, origin |-> origin, HashValue |-> hashValue, isNew |-> isNew]

\* The step of the goroutine that finished its download, with the download
\* as finishDownloading left it.
DownloadFinished(n, origin, hashValue, df) ==
    [node |-> n, kind |-> "downloadReply", origin |-> origin, HashValue |-> hashValue,
     isNew |-> TRUE, df |-> df]

\* make(chan *DataReply): a channel no map entry and no goroutine has.
NewDownloadChannel(n) ==
    CHOOSE c \in 1..(Cardinality(Names) + 1) :
        /\ \A o \in Names : downloadingFilesChannels[n][o] # c
        /\ \A t \in downloadTasks[n] : t.ch # c

\* downloadingFilesChannelsMux is held by the message processor while it is
\* blocked in the send of processDataReply, and by a goroutine that returned
\* without its Unlock.
DownloadMuxFree(n) ==
    /\ disp[n].pc # "sendDataReply"
    /\ \A t \in downloadTasks[n] : t.pc # "dead"

\* What the download steps leave alone. What is in flight between the nodes
\* is not theirs: the runs say what becomes of a step's output.
downloadFrame == <<peers, nextHop, store, statusesChannels, threads, pool, bm, miner,
                   privateMessages, sharedFiles, recentSearchRequests, currentSearchRequest,
                   searchTasks>>

\* processClientDataRequest that goes on after the manager refused the
\* download.
ClientToDownload_anyway(n, origin, name, hashValue) ==
    /\ disp[n].pc = "idle"
    /\ downloadingFiles' = [downloadingFiles EXCEPT ![n] =
           StartDownloadingFromOrigin(@, origin, name, hashValue).dfm]
    /\ downloadingFilesChannels' =
           [downloadingFilesChannels EXCEPT ![n][origin] = NewDownloadChannel(n)]
    /\ out' = sendPacketWithNextHop(nextHop[n], origin, DownloadRequest(n, origin, hashValue))
    /\ downloadTasks' = [downloadTasks EXCEPT ![n] = @ \cup
           {[origin |-> origin, ch |-> 0, pc |-> "start",
             timeoutsLimit |-> FileDownloadTimeoutsLimit,
             latestRequestedHash |-> hashValue,
             dataReplyPacket |-> Nil, timeouts |-> 0]}]
    /\ last' = DownloadStep(n, "download", origin, hashValue,
                            origin \notin DOMAIN downloadingFiles[n])
    /\ UNCHANGED <<disp, downloadFrame>>

\* processClientMessage with a ToDownload that names its destination:
\* processClientDataRequest. The goroutine is started as its last statement.
ClientToDownload(n, origin, name, hashValue) ==
    LET r == StartDownloadingFromOrigin(downloadingFiles[n], origin, name, hashValue)
        ch == NewDownloadChannel(n)
    IN  /\ disp[n].pc = "idle"
        /\ IF ~r.ok
           THEN /\ out' = <<>>
                /\ UNCHANGED <<downloadingFiles, downloadingFilesChannels, downloadTasks>>
           ELSE /\ downloadingFiles' = [downloadingFiles EXCEPT ![n] = r.dfm]
                /\ downloadingFilesChannels' =
                       [downloadingFilesChannels EXCEPT ![n][origin] = ch]
                /\ out' = sendPacketWithNextHop(nextHop[n], origin,
                                                DownloadRequest(n, origin, hashValue))
                /\ downloadTasks' = [downloadTasks EXCEPT ![n] = @ \cup
                       {[origin |-> origin, ch |-> 0, pc |-> "start",
                         timeoutsLimit |-> FileDownloadTimeoutsLimit,
                         latestRequestedHash |-> hashValue,
                         dataReplyPacket |-> Nil, timeouts |-> 0]}]
        /\ last' = DownloadStep(n, "download", origin, hashValue, r.ok)
        /\ UNCHANGED <<disp, downloadFrame>>

\* A goroutine of the node takes a step: t becomes u.
TaskBecomes(n, t, u) ==
    downloadTasks' = [downloadTasks EXCEPT ![n] = (@ \ {t}) \cup {u}]

TaskEnds(n, t) ==
    downloadTasks' = [downloadTasks EXCEPT ![n] = @ \ {t}]

\* startFileDownloadingGoroutine up to its loop: the channel is read from the
\* map under the mutex. Without an entry the goroutine returns and the mutex
\* stays locked.
DownloadStart(n) ==
    /\ DownloadMuxFree(n)
    /\ \E t \in downloadTasks[n] :
        /\ t.pc = "start"
        /\ IF downloadingFilesChannels[n][t.origin] # 0
           THEN TaskBecomes(n, t, [t EXCEPT !.ch = downloadingFilesChannels[n][t.origin],
                                            !.pc = "wait",
                                            !.timeoutsLimit = FileDownloadTimeoutsLimit])
           ELSE TaskBecomes(n, t, [t EXCEPT !.pc = "dead"])
        /\ last' = DownloadStep(n, "downloadStart", t.origin, t.latestRequestedHash, FALSE)
    /\ out' = <<>>
    /\ UNCHANGED <<disp, downloadingFiles, downloadingFilesChannels, downloadFrame>>

\* The count of timeouts in a row, which the run keeps up to the limit.
OneMore(k) == IF k < FileDownloadTimeoutsLimit THEN k + 1 ELSE k

\* The select takes the ticker's case: one timeout less is left; at none the
\* goroutine goes for the mutex to give up, else it sends the request for
\* latestRequestedHash again.
DownloadTimeout(n) ==
    /\ \E t \in downloadTasks[n] :
        /\ t.pc = "wait"
        /\ IF t.timeoutsLimit - 1 <= 0
           THEN /\ TaskBecomes(n, t, [t EXCEPT !.pc = "abandon",
                                               !.timeoutsLimit = t.timeoutsLimit - 1,
                                               !.timeouts = OneMore(@)])
                /\ out' = <<>>
           ELSE /\ TaskBecomes(n, t, [t EXCEPT !.timeoutsLimit = t.timeoutsLimit - 1,
                                               !.timeouts = OneMore(@)])
                /\ out' = sendPacketWithNextHop(nextHop[n], t.origin,
                              DownloadRequest(n, t.origin, t.latestRequestedHash))
        /\ last' = DownloadStep(n, "downloadTimeout", t.origin, t.latestRequestedHash, FALSE)
    /\ UNCHANGED <<disp, downloadingFiles, downloadingFilesChannels, downloadFrame>>

\* The last timeout, under the mutex: the channel and the download are
\* dropped and the goroutine returns.
DownloadAbandon(n) ==
    /\ DownloadMuxFree(n)
    /\ \E t \in downloadTasks[n] :
        /\ t.pc = "abandon"
        /\ downloadingFilesChannels' = [downloadingFilesChannels EXCEPT ![n][t.origin] = 0]
        /\ downloadingFiles' = [downloadingFiles EXCEPT ![n] = DropDownloading(@, t.origin)]
        /\ TaskEnds(n, t)
        /\ last' = DownloadStep(n, "downloadAbandon", t.origin, t.latestRequestedHash, FALSE)
    /\ out' = <<>>
    /\ UNCHANGED <<disp, downloadFrame>>

\* The send `ch <- drpmsg` of processDataReply meets the receive of the
\* goroutine waiting in its select; the message processor then releases the
\* mutex.
DownloadHandoff(n) ==
    /\ disp[n].pc = "sendDataReply"
    /\ \E t \in downloadTasks[n] :
        /\ t.ch = disp[n].ch
        /\ t.pc = "wait"
        /\ TaskBecomes(n, t, [t EXCEPT !.pc = "got", !.dataReplyPacket = Slice(disp[n].drpmsg)])
        /\ last' = DownloadStep(n, "downloadHandoff", t.origin, disp[n].drpmsg.HashValue, FALSE)
    /\ disp' = [disp EXCEPT ![n] = Idle]
    /\ out' = <<>>
    /\ UNCHANGED <<downloadingFiles, downloadingFilesChannels, downloadFrame>>

\* The select's reply case, under the mutex and after it: an error asks for
\* latestRequestedHash again; a finished download deletes the channel and
\* ends the goroutine; else the timeouts start anew and the next missing hash,
\* if the manager has one, is requested.
DownloadReply(n) ==
    /\ DownloadMuxFree(n)
    /\ \E t \in downloadTasks[n] :
        /\ t.pc = "got"
        /\ LET drpmsg == t.dataReplyPacket[1]
               r == ManagerProcessDataReply(downloadingFiles[n], t.origin, drpmsg)
               waiting == [t EXCEPT !.pc = "wait", !.dataReplyPacket = Nil]
           IN  /\ downloadingFiles' = [downloadingFiles EXCEPT ![n] = r.dfm]
               /\ last' = IF r.isFinished = "true"
                           THEN DownloadFinished(n, t.origin, drpmsg.HashValue,
                                    ProcessDataReply(downloadingFiles[n][t.origin], drpmsg).df)
                           ELSE DownloadStep(n, "downloadReply", t.origin, drpmsg.HashValue,
                                             r.isFinished # "nil")
               /\ CASE r.isFinished = "nil" ->
                         /\ out' = sendPacketWithNextHop(nextHop[n], t.origin,
                                       DownloadRequest(n, t.origin, t.latestRequestedHash))
                         /\ TaskBecomes(n, t, waiting)
                         /\ UNCHANGED downloadingFilesChannels
                    [] r.isFinished = "true" ->
                         /\ downloadingFilesChannels' =
                                [downloadingFilesChannels EXCEPT ![n][t.origin] = 0]
                         /\ TaskEnds(n, t)
                         /\ out' = <<>>
                    [] OTHER ->
                         /\ UNCHANGED downloadingFilesChannels
                         /\ IF GetDataRequestHash(r.dfm, t.origin) = {}
                            THEN /\ out' = <<>>
                                 /\ TaskBecomes(n, t,
                                        [waiting EXCEPT
                                           !.timeoutsLimit = FileDownloadTimeoutsLimit,
                                           !.timeouts = IF r.dfm = downloadingFiles[n]
                                                        THEN @ ELSE 0])
                            ELSE \E dataRequestHash \in GetDataRequestHash(r.dfm, t.origin) :
                                 /\ out' = sendPacketWithNextHop(nextHop[n], t.origin,
                                               DownloadRequest(n, t.origin, dataRequestHash))
                                 /\ TaskBecomes(n, t,
                                        [waiting EXCEPT
                                           !.timeoutsLimit = FileDownloadTimeoutsLimit,
                                           !.latestRequestedHash = dataRequestHash,
                                           !.timeouts = IF r.dfm = downloadingFiles[n]
                                                        THEN @ ELSE 0])
    /\ UNCHANGED <<disp, downloadFrame>>

\* The origins the client downloads from: one with a route and one without.
DownloadOrigins == {"A", "Z"}

\* What a peer can send as the data of a hash: the metafile of f under its
\* hash, the chunk of f under its hash, the chunk under the hash of the
\* metafile, and another chunk under its own hash.
ReplyPairs == {<<1, <<2>>>>, <<2, <<7>>>>, <<1, <<7>>>>, <<sha256(<<8>>), <<8>>>>}

DownloadReplies ==
    {[kind |-> "dataReply", Origin |-> o, Destination |-> NameOf(Self),
      HopLimit |-> DefaultHopLimit, HashValue |-> pair[1], Data |-> pair[2]] :
        o \in DownloadOrigins, pair \in ReplyPairs}

\* The node has admitted the rumor (A, 1) of peer p: p is the next hop of A.
InitDownload ==
    /\ peers = [n \in {Self} |-> <<"p">>]
    /\ nextHop = [n \in {Self} |-> [o \in {"A"} |-> "p"]]
    /\ store = [n \in {Self} |-> [o \in {"A"} |-> <<[origin |-> "A", ID |-> 1, text |-> TextOf(1)]>>]]
    /\ statusesChannels = [n \in {Self} |-> [p \in OutsidePeers |-> 0]]
    /\ threads = [n \in {Self} |-> {}]
    /\ disp = [n \in {Self} |-> Idle]
    /\ net = {}
    /\ last = Handled(Self, "init", None, None, 0)
    /\ out = <<>>
    /\ pool = [n \in {Self} |-> 0]
    /\ bm = InitBlockchainManager
    /\ miner = [pc |-> "mine"]
    /\ privateMessages = [n \in {Self} |-> <<>>]
    /\ sharedFiles = [n \in {Self} |-> {}]
    /\ recentSearchRequests = [n \in {Self} |-> {}]
    /\ downloadingFilesChannels = [n \in {Self} |-> [o \in Names |-> 0]]
    /\ currentSearchRequest = [n \in {Self} |-> <<>>]
    /\ downloadingFiles = [n \in {Self} |-> <<>>]
    /\ downloadTasks = [n \in {Self} |-> {}]
    /\ searchTasks = [n \in {Self} |-> {}]

ClientDownloads ==
    /\ \E origin \in DownloadOrigins, name \in {"f", "g"} :
           ClientToDownload(Self, origin, name, 1)
    /\ UNCHANGED net

OutsideDownloadReply ==
    /\ \E from \in FwdPeers, drpmsg \in DownloadReplies : PeerDataReply(Self, from, drpmsg)
    /\ UNCHANGED net

NextDownload ==
    \/ ClientDownloads
    \/ OutsideDownloadReply
    \/ DownloadStart(Self) /\ UNCHANGED net
    \/ DownloadTimeout(Self) /\ UNCHANGED net
    \/ DownloadAbandon(Self) /\ UNCHANGED net
    \/ DownloadHandoff(Self) /\ UNCHANGED net
    \/ DownloadReply(Self) /\ UNCHANGED net

SpecDownload == InitDownload /\ [][NextDownload]_vars

\* ---------------------------------------------------------------------
\* One node, its downloads from one origin: SpecFetch
\* ---------------------------------------------------------------------

\* The files the client asks A for, by name and metahash: f of one chunk, g
\* of two chunks, d of the same chunk twice, e of no chunk.
DownloadableFiles ==
    {<<"f", sha256(<<2>>)>>, <<"g", sha256(<<2, 5>>)>>,
     <<"d", sha256(<<2, 2>>)>>, <<"e", sha256(<<>>)>>}

\* What a peer can send as the data of a hash: the four metafiles and the
\* chunks <<7>> and <<8>>, each under its hash, and the chunk <<7>> under the
\* hash of the metafile of f.
FetchPairs ==
    {<<sha256(<<2>>), <<2>>>>, <<sha256(<<2, 5>>), <<2, 5>>>>,
     <<sha256(<<2, 2>>), <<2, 2>>>>, <<sha256(<<>>), <<>>>>,
     <<sha256(<<7>>), <<7>>>>, <<sha256(<<8>>), <<8>>>>,
     <<sha256(<<2>>), <<7>>>>}

FetchReplies ==
    {[kind |-> "dataReply", Origin |-> "A", Destination |-> NameOf(Self),
      HopLimit |-> DefaultHopLimit, HashValue |-> pair[1], Data |-> pair[2]] :
        pair \in FetchPairs}

ClientFetches ==
    /\ \E file \in DownloadableFiles : ClientToDownload(Self, "A", file[1], file[2])
    /\ UNCHANGED net

OutsideFetchReply ==
    /\ \E drpmsg \in FetchReplies : PeerDataReply(Self, "p", drpmsg)
    /\ UNCHANGED net

NextFetch ==
    \/ ClientFetches
    \/ OutsideFetchReply
    \/ DownloadStart(Self) /\ UNCHANGED net
    \/ DownloadTimeout(Self) /\ UNCHANGED net
    \/ DownloadAbandon(Self) /\ UNCHANGED net
    \/ DownloadHandoff(Self) /\ UNCHANGED net
    \/ DownloadReply(Self) /\ UNCHANGED net

SpecFetch == InitDownload /\ [][NextFetch]_vars

\* ---------------------------------------------------------------------
\* The node and an origin that shares a file: SpecServe
\* ---------------------------------------------------------------------

\* The datagrams the run lets the two nodes send.
MaxDatagrams == 10

\* The origin, at address a with name A.
Origin == "a"

\* The files the origin can share: f of one chunk, g of two, d of the same
\* chunk twice, e of none, t of three.
ServedFiles ==
    {[Name |-> "f", MetaHash |-> sha256(<<2>>), MetaSlice |-> <<2>>, Chunks |-> (2 :> 7)],
     [Name |-> "g", MetaHash |-> sha256(<<2, 5>>), MetaSlice |-> <<2, 5>>,
      Chunks |-> (2 :> 7) @@ (5 :> 8)],
     [Name |-> "d", MetaHash |-> sha256(<<2, 2>>), MetaSlice |-> <<2, 2>>, Chunks |-> (2 :> 7)],
     [Name |-> "e", MetaHash |-> sha256(<<>>), MetaSlice |-> <<>>, Chunks |-> <<>>],
     [Name |-> "t", MetaHash |-> sha256(<<2, 5, 3>>), MetaSlice |-> <<2, 5, 3>>,
      Chunks |-> (2 :> 7) @@ (5 :> 8) @@ (3 :> 12)]}

\* The file the origin shares in the run.
Served == CHOOSE file \in ServedFiles : file \in sharedFiles[Origin]

\* The two nodes know each other and the route to each other; the origin
\* shares one file.
InitServe ==
    /\ peers = ("x" :> <<"a">>) @@ ("a" :> <<"x">>)
    /\ nextHop = ("x" :> [o \in {"A"} |-> "a"]) @@ ("a" :> [o \in {"X"} |-> "x"])
    /\ store = [n \in {"x", "a"} |-> [o \in {"A"} |-> <<>>]]
    /\ statusesChannels = [n \in {"x", "a"} |-> [p \in {"x", "a"} |-> 0]]
    /\ threads = [n \in {"x", "a"} |-> {}]
    /\ disp = [n \in {"x", "a"} |-> Idle]
    /\ net = {}
    /\ last = Handled(Self, "init", None, None, 0)
    /\ out = <<>>
    /\ pool = [n \in {"x", "a"} |-> 0]
    /\ bm = InitBlockchainManager
    /\ miner = [pc |-> "mine"]
    /\ privateMessages = [n \in {"x", "a"} |-> <<>>]
    /\ \E file \in ServedFiles : sharedFiles = ("x" :> {}) @@ ("a" :> {file})
    /\ recentSearchRequests = [n \in {"x", "a"} |-> {}]
    /\ downloadingFilesChannels = [n \in {"x", "a"} |-> [o \in Names |-> 0]]
    /\ currentSearchRequest = [n \in {"x", "a"} |-> <<>>]
    /\ searchTasks = [n \in {"x", "a"} |-> {}]
    /\ downloadingFiles = [n \in {"x", "a"} |-> <<>>]
    /\ downloadTasks = [n \in {"x", "a"} |-> {}]

\* The datagrams of the run, delivered or on their way: the step's output
\* for a node of the run joins them, numbered, while the run has room.
Posted(n, o) ==
    IF Cardinality(net) >= MaxDatagrams THEN net
    ELSE net \cup {[src |-> d.src, dst |-> d.dst, pkt |-> d.pkt,
                    seq |-> Cardinality(net) + 1, delivered |-> FALSE] :
                       d \in Datagrams(n, o)}

InFlight == {d \in net : ~d.delivered}

\* The client of the node asks, once, for the file the origin shares.
ServeClient ==
    /\ net = {}
    /\ downloadTasks[Self] = {}
    /\ last.kind = "init"
    /\ ClientToDownload(Self, NameOf(Origin), Served.Name, Served.MetaHash)
    /\ net' = Posted(Self, out')

\* StartPeerReader and the message processor of the datagram's destination:
\* a datagram on its way is read and handled.
ServeDeliver ==
    \E d \in InFlight :
        /\ IF d.pkt.kind = "dataRequest"
           THEN PeerDataRequest(d.dst, d.src, d.pkt)
           ELSE PeerDataReply(d.dst, d.src, d.pkt)
        /\ net' = LET delivered == (net \ {d}) \cup {[d EXCEPT !.delivered = TRUE]}
                  IN  IF Cardinality(net) >= MaxDatagrams THEN delivered
                      ELSE delivered \cup
                           {[src |-> e.src, dst |-> e.dst, pkt |-> e.pkt,
                             seq |-> Cardinality(net) + 1, delivered |-> FALSE] :
                                e \in Datagrams(d.dst, out')}

\* The ticker of the goroutine is slower than a request and its reply: it
\* fires when nothing is on its way and no reply waits to be handled.
ServeTimeout ==
    /\ InFlight = {}
    /\ disp[Self].pc = "idle"
    /\ \A t \in downloadTasks[Self] : t.pc = "wait"
    /\ DownloadTimeout(Self)
    /\ net' = Posted(Self, out')

NextServe ==
    \/ ServeClient
    \/ ServeDeliver
    \/ DownloadStart(Self) /\ UNCHANGED net
    \/ ServeTimeout
    \/ DownloadAbandon(Self) /\ UNCHANGED net
    \/ DownloadHandoff(Self) /\ UNCHANGED net
    \/ DownloadReply(Self) /\ net' = Posted(Self, out')

SpecServe == InitServe /\ [][NextServe]_vars

\* ---------------------- one node, what it answers a request with: SpecHold

\* The node shares nothing or the file s of the chunks <<7>> and <<12>>.
HeldFiles ==
    {{}, {[Name |-> "s", MetaHash |-> sha256(<<2, 3>>), MetaSlice |-> <<2, 3>>,
           Chunks |-> (2 :> 7) @@ (3 :> 12)]}}

\* The requests of A: for the node and for another one, for every hash.
HoldRequests ==
    {[kind |-> "dataRequest", Origin |-> "A", Destination |-> d,
      HopLimit |-> DefaultHopLimit, HashValue |-> h] :
        d \in {NameOf(Self), "Z"}, h \in 0..(HashModulus - 1)}

InitHold ==
    /\ peers = [n \in {Self} |-> <<"p">>]
    /\ nextHop = [n \in {Self} |-> [o \in {"A"} |-> "p"]]
    /\ store = [n \in {Self} |-> [o \in {"A"} |-> <<>>]]
    /\ statusesChannels = [n \in {Self} |-> [p \in OutsidePeers |-> 0]]
    /\ threads = [n \in {Self} |-> {}]
    /\ disp = [n \in {Self} |-> Idle]
    /\ net = {}
    /\ last = Handled(Self, "init", None, None, 0)
    /\ out = <<>>
    /\ pool = [n \in {Self} |-> 0]
    /\ bm = InitBlockchainManager
    /\ miner = [pc |-> "mine"]
    /\ privateMessages = [n \in {Self} |-> <<>>]
    /\ \E files \in HeldFiles : sharedFiles = [n \in {Self} |-> files]
    /\ recentSearchRequests = [n \in {Self} |-> {}]
    /\ downloadingFilesChannels = [n \in {Self} |-> [o \in Names |-> 0]]
    /\ currentSearchRequest = [n \in {Self} |-> <<>>]
    /\ downloadingFiles = [n \in {Self} |-> <<>>]
    /\ downloadTasks = [n \in {Self} |-> {}]
    /\ searchTasks = [n \in {Self} |-> {}]

OutsideHoldRequest ==
    /\ \E drqmsg \in HoldRequests : PeerDataRequest(Self, "p", drqmsg)
    /\ UNCHANGED net

NextHold ==
    \/ ClientFetches
    \/ OutsideFetchReply
    \/ OutsideHoldRequest
    \/ DownloadStart(Self) /\ UNCHANGED net
    \/ DownloadTimeout(Self) /\ UNCHANGED net
    \/ DownloadAbandon(Self) /\ UNCHANGED net
    \/ DownloadHandoff(Self) /\ UNCHANGED net
    \/ DownloadReply(Self) /\ UNCHANGED net

SpecHold == InitHold /\ [][NextHold]_vars

\* ---------------------------------- one node, its file search: SpecSearch

\* The largest budget a search goes up to, FileSearchMaxBudget of the
\* configuration (32 there).
MaxSearchBudget == 4

FileSearchMaxBudget == MaxSearchBudget

\* FileSearchStartBudget and FileSearchFullMatchesThreshold of the
\* configuration.
FileSearchStartBudget == 2

FileSearchFullMatchesThreshold == 2

\* InitCurrentSearchRequest.
InitCurrentSearchRequest(ch) == [ch |-> ch, fullMatches |-> <<>>, isAlive |-> TRUE]

\* CurrentSearchRequest.IsAlive.
IsAlive(csr) == csr.isAlive

\* The test of processClientSearchRequest that never finds a search.
CurrentSearchIsAlive_never(current) == FALSE

\* g.currentSearchRequest != nil && g.currentSearchRequest.IsAlive().
CurrentSearchIsAlive(current) == current # <<>> /\ IsAlive(current[1])

\* AddFullMatch without the look through the matches.
AddFullMatch_twice(csr, match) == [csr EXCEPT !.fullMatches = Append(@, match)]

\* CurrentSearchRequest.AddFullMatch: a match of the same origin and metafile
\* hash is not counted twice.
AddFullMatch(csr, match) ==
    IF \E i \in 1..Len(csr.fullMatches) :
           /\ csr.fullMatches[i].Origin = match.Origin
           /\ csr.fullMatches[i].MetafileHash = match.MetafileHash
    THEN csr
    ELSE [csr EXCEPT !.fullMatches = Append(@, match)]

\* CurrentSearchRequest.GetFullMatchesNumber.
GetFullMatchesNumber(csr) == Len(csr.fullMatches)

\* CurrentSearchRequest.Shutdown.
Shutdown(csr) == [csr EXCEPT !.isAlive = FALSE]

\* csr.mux is free: the message processor is not inside ForwardSearchReply.
\* The goroutine holds it only within one of its steps.
SearchMuxFree(n) == disp[n].pc # "sendSearchReply"

\* The channel of a new search.
NewSearchChannel(n) == Cardinality(searchTasks[n]) + 1

\* The file-searching goroutine as it starts: budget and maxAllowedBudget
\* are its locals, clientBudget and requested remember the budget the client
\* gave and the budgets of the requests sent so far.
startFileSearchingGoroutine(keywords, budget, ch) ==
    [ch |-> ch, keywords |-> keywords,
     budget |-> IF budget = 0 THEN FileSearchStartBudget ELSE budget,
     maxAllowedBudget |-> IF budget = 0 THEN FileSearchMaxBudget ELSE budget,
     pc |-> "select", replyOrigin |-> None, results |-> <<>>,
     clientBudget |-> budget, requested |-> <<>>]

\* What a step of the search leaves in last.
SearchStep(n, kind, keywords, clientBudget, requested, isNew) ==
    [node |-> n, kind |-> kind, keywords |-> keywords, clientBudget |-> clientBudget,
     requested |-> requested, isNew |-> isNew]

\* The same for a result of a reply: whether it was a full match, and the
\* number of full matches before it.
SearchMatchStep(n, t, full, before) ==
    [node |-> n, kind |-> "searchAddMatch", keywords |-> t.keywords,
     clientBudget |-> t.clientBudget, requested |-> t.requested, isNew |-> full,
     matchesBefore |-> before]

\* What the search leaves alone.
searchFrame == <<peers, nextHop, store, statusesChannels, threads, net, pool, bm, miner,
                 privateMessages, sharedFiles, recentSearchRequests,
                 downloadingFilesChannels, downloadingFiles, downloadTasks>>

SearchTaskBecomes(n, t, u) ==
    searchTasks' = [searchTasks EXCEPT ![n] = (@ \ {t}) \cup {u}]

\* processClientMessage with a ToSearch: processClientSearchRequest.
ClientToSearch(n, keywords, budget) ==
    /\ disp[n].pc = "idle"
    /\ IF CurrentSearchIsAlive(currentSearchRequest[n])
       THEN /\ last' = SearchStep(n, "clientSearch", keywords, budget, <<>>, FALSE)
            /\ UNCHANGED <<currentSearchRequest, searchTasks>>
       ELSE LET ch == NewSearchChannel(n) IN
            /\ currentSearchRequest' =
                   [currentSearchRequest EXCEPT ![n] = <<InitCurrentSearchRequest(ch)>>]
            /\ searchTasks' = [searchTasks EXCEPT
                                  ![n] = @ \cup {startFileSearchingGoroutine(keywords, budget, ch)}]
            /\ last' = SearchStep(n, "clientSearch", keywords, budget, <<>>, TRUE)
    /\ out' = <<>>
    /\ UNCHANGED <<disp, searchFrame>>

\* The process after a panic that nothing recovers from: no thread runs.
Panicked == [pc |-> "panic"]

Running(n) == disp[n].pc # "panic"

\* processSearchRequest gets to 'budget % len(g.peers)' with no peers: an
\* integer division by zero.
processSearchRequestPanics(n, ps, srqmsg) ==
    /\ Len(ps) = 0
    /\ srqmsg.Origin # NameOf(n) => srqmsg.Budget - 1 > 0

\* The ticker case of the goroutine's select: shut down past the linger,
\* linger past the maximum, else send a request of the budget and add one.
SearchTick(n) ==
    \E t \in searchTasks[n] :
        /\ t.pc = "select"
        /\ IF t.budget > t.maxAllowedBudget
           THEN /\ out' = <<>>
                /\ IF t.budget > t.maxAllowedBudget + 1
                   THEN SearchTaskBecomes(n, t, [t EXCEPT !.pc = "shutdown"])
                   ELSE SearchTaskBecomes(n, t, [t EXCEPT !.budget = @ + 1])
                /\ last' = SearchStep(n, "searchTick", t.keywords, t.clientBudget,
                                      t.requested, FALSE)
                /\ UNCHANGED disp
           ELSE IF processSearchRequestPanics(n, peers[n],
                       [kind |-> "searchRequest", Origin |-> NameOf(n),
                        Budget |-> t.budget, Keywords |-> t.keywords])
           THEN /\ disp' = [disp EXCEPT ![n] = Panicked]
                /\ out' = <<>>
                /\ last' = SearchStep(n, "searchTick", t.keywords, t.clientBudget,
                                      t.requested, FALSE)
                /\ UNCHANGED searchTasks
           ELSE /\ UNCHANGED disp
                /\ out' = processSearchRequest(n, peers[n],
                              [kind |-> "searchRequest", Origin |-> NameOf(n),
                               Budget |-> t.budget, Keywords |-> t.keywords])
                /\ SearchTaskBecomes(n, t, [t EXCEPT !.budget = @ + 1,
                                                     !.requested = Append(@, t.budget)])
                /\ last' = SearchStep(n, "searchTick", t.keywords, t.clientBudget,
                                      Append(t.requested, t.budget), TRUE)
        /\ UNCHANGED <<currentSearchRequest, searchFrame>>

\* CurrentSearchRequest.ForwardSearchReply's send meets the goroutine's
\* receive: the message processor returns and unlocks.
SearchHandoff(n) ==
    /\ disp[n].pc = "sendSearchReply"
    /\ \E t \in searchTasks[n] :
        /\ t.ch = disp[n].ch
        /\ t.pc = "select"
        /\ SearchTaskBecomes(n, t, [t EXCEPT !.pc = "got",
                                             !.replyOrigin = disp[n].srpmsg.Origin,
                                             !.results = disp[n].srpmsg.Results])
        /\ last' = SearchStep(n, "searchHandoff", t.keywords, t.clientBudget,
                              t.requested, FALSE)
    /\ disp' = [disp EXCEPT ![n] = Idle]
    /\ out' = <<>>
    /\ UNCHANGED <<currentSearchRequest, searchFrame>>

\* One result of the reply: a full match (all the chunks) is added under the
\* lock, any other one is skipped.
SearchAddMatch(n) ==
    \E t \in searchTasks[n] :
        /\ t.pc = "got"
        /\ t.results # <<>>
        /\ LET res == Head(t.results)
               full == Len(res.ChunkMap) = res.ChunkCount
               fullMatch == [Origin |-> t.replyOrigin, Filename |-> res.FileName,
                             MetafileHash |-> res.MetafileHash]
           IN  /\ full => SearchMuxFree(n)
               /\ currentSearchRequest' =
                      IF full
                      THEN [currentSearchRequest EXCEPT ![n] = <<AddFullMatch(@[1], fullMatch)>>]
                      ELSE currentSearchRequest
               /\ last' = SearchMatchStep(n, t, full,
                                          GetFullMatchesNumber(currentSearchRequest[n][1]))
        /\ SearchTaskBecomes(n, t, [t EXCEPT !.results = Tail(@)])
        /\ out' = <<>>
        /\ UNCHANGED <<disp, searchFrame>>

\* After the results: the number of full matches against the threshold.
SearchCount(n) ==
    \E t \in searchTasks[n] :
        /\ t.pc = "got"
        /\ t.results = <<>>
        /\ SearchMuxFree(n)
        /\ IF GetFullMatchesNumber(currentSearchRequest[n][1]) >= FileSearchFullMatchesThreshold
           THEN SearchTaskBecomes(n, t, [t EXCEPT !.pc = "shutdown"])
           ELSE SearchTaskBecomes(n, t, [t EXCEPT !.pc = "select", !.replyOrigin = None])
        /\ last' = SearchStep(n, "searchCount", t.keywords, t.clientBudget, t.requested,
                      GetFullMatchesNumber(currentSearchRequest[n][1])
                          >= FileSearchFullMatchesThreshold)
        /\ out' = <<>>
        /\ UNCHANGED <<currentSearchRequest, disp, searchFrame>>

\* g.currentSearchRequest.Shutdown() and the return of the goroutine.
SearchShutdown(n) ==
    \E t \in searchTasks[n] :
        /\ t.pc = "shutdown"
        /\ SearchMuxFree(n)
        /\ currentSearchRequest' = [currentSearchRequest EXCEPT ![n] = <<Shutdown(@[1])>>]
        /\ searchTasks' = [searchTasks EXCEPT ![n] = @ \ {t}]
        /\ last' = SearchStep(n, "searchShutdown", t.keywords, t.clientBudget,
                              t.requested, FALSE)
        /\ out' = <<>>
        /\ UNCHANGED <<disp, searchFrame>>

\* What the client asks to search for.
SearchKeywords == {<<"f">>, <<"g">>}

ClientBudgets == {0, 3}

\* The results peers answer with: all the chunks of f, or one chunk of two.
FullResult == [FileName |-> "f", MetafileHash |-> 1, ChunkMap |-> <<1>>, ChunkCount |-> 1]

PartialResult == [FileName |-> "f", MetafileHash |-> 1, ChunkMap |-> <<1>>, ChunkCount |-> 2]

SearchAnswers ==
    [kind : {"searchReply"}, Origin : {"A", "Z"}, Destination : {"X"},
     HopLimit : {MaxHop}, Results : {<<FullResult>>, <<PartialResult, FullResult>>}]

SearchQuestions ==
    [kind : {"searchRequest"}, Origin : {"A", "X"}, Budget : 0..MaxSearchBudget,
     Keywords : {<<"f">>}]

\* The peers the node can know at the start.
SearchPeers == {<<"p">>, <<"p", "q">>, <<"p", "q", "r">>}

\* The node knows one, two or three peers, shares f and has a route to A.
InitSearch ==
    /\ peers \in [{Self} -> SearchPeers]
    /\ nextHop = [n \in {Self} |-> [o \in {"A"} |-> "p"]]
    /\ store = [n \in {Self} |-> [o \in {"A"} |-> <<>>]]
    /\ statusesChannels = [n \in {Self} |-> [p \in OutsidePeers |-> 0]]
    /\ threads = [n \in {Self} |-> {}]
    /\ disp = [n \in {Self} |-> Idle]
    /\ net = {}
    /\ last = Handled(Self, "init", None, None, 0)
    /\ out = <<>>
    /\ pool = [n \in {Self} |-> 1]
    /\ bm = InitBlockchainManager
    /\ miner = [pc |-> "mine"]
    /\ privateMessages = [n \in {Self} |-> <<>>]
    /\ sharedFiles = [n \in {Self} |-> FilesOnDisk]
    /\ recentSearchRequests = [n \in {Self} |-> {}]
    /\ downloadingFilesChannels = [n \in {Self} |-> [o \in Names |-> 0]]
    /\ currentSearchRequest = [n \in {Self} |-> <<>>]
    /\ downloadingFiles = [n \in {Self} |-> <<>>]
    /\ downloadTasks = [n \in {Self} |-> {}]
    /\ searchTasks = [n \in {Self} |-> {}]

ClientSearches ==
    \E keywords \in SearchKeywords, budget \in ClientBudgets :
        ClientToSearch(Self, keywords, budget)

OutsideSearchAnswer ==
    \E srpmsg \in SearchAnswers : PeerSearchReply(Self, "p", srpmsg)

OutsideSearchQuestion ==
    \E srqmsg \in SearchQuestions : PeerSearchRequest(Self, "p", srqmsg)

NextSearch ==
    \/ ClientSearches
    \/ SearchTick(Self)
    \/ OutsideSearchAnswer
    \/ SearchHandoff(Self)
    \/ SearchAddMatch(Self)
    \/ SearchCount(Self)
    \/ SearchShutdown(Self)
    \/ OutsideSearchQuestion
    \/ RecentSearchRequestTimeout(Self)

SpecSearch == InitSearch /\ [][NextSearch]_vars

\* ----------------------------------- one node, its peer list: SpecPeers

\* The peers the operator can give the node at its start: NewGossiper appends
\* each address of the list as it comes.
SeededPeers == {<<>>, <<"p">>, <<"p", "q">>, <<"p", "p">>}

InitPeers ==
    /\ peers \in [{Self} -> SeededPeers]
    /\ nextHop = [n \in {Self} |-> [o \in {"A"} |-> None]]
    /\ store = [n \in {Self} |-> [o \in {"A"} |-> <<>>]]
    /\ statusesChannels = [n \in {Self} |-> [p \in OutsidePeers |-> 0]]
    /\ threads = [n \in {Self} |-> {}]
    /\ disp = [n \in {Self} |-> Idle]
    /\ net = {}
    /\ last = Handled(Self, "init", None, None, 0)
    /\ out = <<>>
    /\ pool = [n \in {Self} |-> 1]
    /\ bm = InitBlockchainManager
    /\ miner = [pc |-> "mine"]
    /\ privateMessages = [n \in {Self} |-> <<>>]
    /\ sharedFiles = [n \in {Self} |-> {}]
    /\ recentSearchRequests = [n \in {Self} |-> {}]
    /\ downloadingFilesChannels = [n \in {Self} |-> [o \in Names |-> 0]]
    /\ currentSearchRequest = [n \in {Self} |-> <<>>]
    /\ downloadingFiles = [n \in {Self} |-> <<>>]
    /\ downloadTasks = [n \in {Self} |-> {}]
    /\ searchTasks = [n \in {Self} |-> {}]

\* StartPeerReader with a datagram protobuf.Decode fails on: the warning is
\* logged and the packet, with none of its fields set, goes to the message
\* processor with its source; processAddressedGossipPacket finds no field.
PeerUndecodable(n, from) ==
    /\ disp[n].pc = "idle"
    /\ peers' = [peers EXCEPT ![n] = UpdatePeersIfNeeded(@, from)]
    /\ out' = <<>>
    /\ last' = HandledPacket(n, "undecodable", from, None, FALSE)
    /\ UNCHANGED <<nextHop, disp, fileVars, fwdFrame>>

\* StartClientReader with such a datagram: processClientMessage finds no
\* field in the message.
ClientUndecodable(n) ==
    /\ disp[n].pc = "idle"
    /\ out' = <<>>
    /\ last' = HandledPacket(n, "clientUndecodable", None, None, FALSE)
    /\ UNCHANGED <<peers, nextHop, disp, fileVars, fwdFrame>>

PeersUndecodable ==
    \E from \in OutsidePeers : PeerUndecodable(Self, from)

PeersPrivate ==
    \E from \in OutsidePeers, pmsg \in Privates : PeerPrivate(Self, from, pmsg)

PeersDataRequest ==
    /\ \E from \in OutsidePeers, drqmsg \in DataRequests : PeerDataRequest(Self, from, drqmsg)
    /\ UNCHANGED net

PeersSearchRequest ==
    \E from \in OutsidePeers, srqmsg \in SearchRequests : PeerSearchRequest(Self, from, srqmsg)

PeersSearchReply ==
    \E from \in OutsidePeers, srpmsg \in SearchReplies : PeerSearchReply(Self, from, srpmsg)

NextPeers ==
    \/ PeersPrivate
    \/ PeersDataRequest
    \/ PeersSearchRequest
    \/ PeersSearchReply
    \/ RecentSearchRequestTimeout(Self)
    \/ ClientSendsPrivate
    \/ ClientShares
    \/ PeersUndecodable
    \/ ClientUndecodable(Self)

SpecPeers == InitPeers /\ [][NextPeers]_vars

\* ------------------------------ one node, what it does not survive: SpecCrash

\* CurrentSearchRequest.DownloadFileByHash: is there a full match of the hash.
DownloadFileByHash(csr, metahash) ==
    \E i \in 1..Len(csr.fullMatches) : csr.fullMatches[i].MetafileHash = metahash

\* processClientDataRequest with an empty destination: the file is looked for
\* among the full matches of g.currentSearchRequest, a nil pointer before the
\* first search.
ClientToDownloadByHash(n, name, hashValue) ==
    /\ disp[n].pc = "idle"
    /\ IF currentSearchRequest[n] = <<>>
       THEN /\ disp' = [disp EXCEPT ![n] = Panicked]
            /\ last' = DownloadStep(n, "downloadByHash", "", hashValue, FALSE)
       ELSE /\ UNCHANGED disp
            /\ last' = DownloadStep(n, "downloadByHash", "", hashValue,
                                    DownloadFileByHash(currentSearchRequest[n][1], hashValue))
    /\ out' = <<>>
    /\ UNCHANGED <<downloadingFiles, downloadingFilesChannels, downloadTasks, downloadFrame>>

CrashClientSearches ==
    \E budget \in ClientBudgets : ClientToSearch(Self, <<"f">>, budget)

CrashSearchTick == Running(Self) /\ SearchTick(Self)

CrashSearchShutdown == Running(Self) /\ SearchShutdown(Self)

CrashClientDownloads ==
    /\ \E hashValue \in {1, 2} : ClientToDownloadByHash(Self, "f", hashValue)
    /\ UNCHANGED net

CrashRecentTimeout == Running(Self) /\ RecentSearchRequestTimeout(Self)

NextCrash ==
    \/ CrashClientSearches
    \/ CrashSearchTick
    \/ CrashSearchShutdown
    \/ CrashClientDownloads
    \/ PeersPrivate
    \/ PeersSearchRequest
    \/ CrashRecentTimeout

SpecCrash == InitPeers /\ [][NextCrash]_vars

\* ------------------------------------ nodes in simple mode: SpecFlood, SpecRing

\* The copies that leave the relay address as it came.
processAddressedSimpleMessage_keepsRelay(n, ps, address, smsg) ==
    LET others == SelectSeq(ps, LAMBDA peer : address = None \/ peer # address)
    IN  [i \in 1..Len(others) |-> [dst |-> others[i], pkt |-> smsg]]

\* processAddressedSimpleMessage: the relay address becomes the node's own and
\* a copy goes to each peer of the list whose address is not the source's.
processAddressedSimpleMessage(n, ps, address, smsg) ==
    LET others == SelectSeq(ps, LAMBDA peer : address = None \/ peer # address)
    IN  [i \in 1..Len(others) |->
            [dst |-> others[i], pkt |-> [smsg EXCEPT !.RelayPeerAddr = n]]]

\* What the flooding leaves alone.
floodFrame == <<nextHop, store, statusesChannels, threads, disp, pool, beyondGossip>>

\* processAddressedGossipPacket with a SimpleMessage.
PeerSimple(n, from, smsg) ==
    /\ disp[n].pc = "idle"
    /\ peers' = [peers EXCEPT ![n] = UpdatePeersIfNeeded(@, from)]
    /\ out' = processAddressedSimpleMessage(n, peers'[n], from, smsg)
    /\ last' = HandledPacket(n, "simple", from, smsg, FALSE)
    /\ UNCHANGED floodFrame

\* processClientMessage with a rumor in simple mode: the text goes out as a
\* SimpleMessage of the node, with no source to leave out.
ClientSimple(n, text) ==
    LET smsg == [kind |-> "simple", OriginalName |-> NameOf(n), RelayPeerAddr |-> "",
                 Text |-> text]
    IN  /\ disp[n].pc = "idle"
        /\ out' = processAddressedSimpleMessage(n, peers[n], None, smsg)
        /\ last' = HandledPacket(n, "clientSimple", None, smsg, TRUE)
        /\ UNCHANGED <<peers, floodFrame>>

\* The SimpleMessages peers send the node of SpecFlood.
SimpleMessages ==
    [kind : {"simple"}, OriginalName : {"A", "Z"}, RelayPeerAddr : {"p", "r"}, Text : Texts]

FloodPeers == {"p", "q", "r"}

OutsideSimple ==
    /\ \E from \in FloodPeers, smsg \in SimpleMessages : PeerSimple(Self, from, smsg)
    /\ UNCHANGED net

ClientFloods ==
    /\ \E text \in Texts : ClientSimple(Self, text)
    /\ UNCHANGED net

NextFlood ==
    \/ OutsideSimple
    \/ ClientFloods

SpecFlood == InitPeers /\ [][NextFlood]_vars

\* The ring of the test script: every node is started in simple mode with
\* its successor as its only peer.
RingNodes == {"a", "b", "c"}

Successor(n) ==
    CASE n = "a" -> "b"
      [] n = "b" -> "c"
      [] OTHER -> "a"

Predecessor(n) ==
    CASE n = "a" -> "c"
      [] n = "b" -> "a"
      [] OTHER -> "b"

InitRing ==
    /\ peers = [n \in RingNodes |-> <<Successor(n)>>]
    /\ nextHop = [n \in RingNodes |-> [o \in {"A"} |-> None]]
    /\ store = [n \in RingNodes |-> [o \in {"A"} |-> <<>>]]
    /\ statusesChannels = [n \in RingNodes |-> [p \in RingNodes |-> 0]]
    /\ threads = [n \in RingNodes |-> {}]
    /\ disp = [n \in RingNodes |-> Idle]
    /\ net = {}
    /\ last = Handled("a", "init", None, None, 0)
    /\ out = <<>>
    /\ pool = [n \in RingNodes |-> 1]
    /\ bm = InitBlockchainManager
    /\ miner = [pc |-> "mine"]
    /\ privateMessages = [n \in RingNodes |-> <<>>]
    /\ sharedFiles = [n \in RingNodes |-> {}]
    /\ recentSearchRequests = [n \in RingNodes |-> {}]
    /\ downloadingFilesChannels = [n \in RingNodes |-> [o \in Names |-> 0]]
    /\ currentSearchRequest = [n \in RingNodes |-> <<>>]
    /\ searchTasks = [n \in RingNodes |-> {}]
    /\ downloadingFiles = [n \in RingNodes |-> <<>>]
    /\ downloadTasks = [n \in RingNodes |-> {}]

\* The client of a node gives it its message, each client once: no message
\* of the node is on its way.
RingClient(n) ==
    /\ \A d \in net : d.pkt.OriginalName # NameOf(n)
    /\ ClientSimple(n, "hi")
    /\ net' = net \cup Datagrams(n, out')

\* StartPeerReader and the message processor of the node a datagram is for.
RingDeliver(d) ==
    /\ d \in net
    /\ PeerSimple(d.dst, d.src, d.pkt)
    /\ net' = (net \ {d}) \cup Datagrams(d.dst, out')

\* The datagrams of the ring.
RingDatagrams ==
    {[src |-> from, dst |-> n,
      pkt |-> [kind |-> "simple", OriginalName |-> NameOf(m),
               RelayPeerAddr |-> from, Text |-> "hi"]] :
         from \in RingNodes, n \in RingNodes, m \in RingNodes}

RingClients == \E n \in RingNodes : RingClient(n)

RingDelivers == \E d \in net : RingDeliver(d)

NextRing ==
    \/ RingClients
    \/ RingDelivers

\* Every datagram on its way is read and handled: the readers and the
\* message processors of the nodes run for ever.
SpecRing ==
    /\ InitRing
    /\ [][NextRing]_vars
    /\ \A d \in RingDatagrams : WF_vars(RingDeliver(d))

\* ------------------------------- one node, the statuses it gets: SpecStatus

StatusMaxId == 1
StatusThreads == 2

InitStatus == InitNode({"A", "X"}, StatusThreads)

\* A status of an outside peer is in the socket of the node.
StatusArrives ==
    /\ net = {}
    /\ \E from \in OutsidePeers, sp \in Statuses(StatusMaxId) :
           /\ net' = {[src |-> from, dst |-> Self, pkt |-> StatusPacket(sp)]}
           /\ last' = Handled(Self, "datagram", from, None, 0)
    /\ out' = <<>>
    /\ UNCHANGED <<peers, nextHop, store, statusesChannels, threads, disp, pool, beyondGossip>>

StatusClient == \E text \in {"hi"} : ClientRumor(Self, text, StatusMaxId)

StatusRumor ==
    \E from \in OutsidePeers, r \in Rumors(StatusMaxId) : PeerRumor(Self, from, r, {})

StatusDelivered == DeliverStatus(Self)

NextStatus ==
    \/ StatusArrives
    \/ StatusClient
    \/ StatusRumor
    \/ StatusDelivered
    \/ Goroutines

SpecStatus == InitStatus /\ [][NextStatus]_vars

\* ------------------------------------------------------------------ claims

\* The ids of the rumors a log holds.
IdsHeld(log) == {log[i].ID : i \in 1..Len(log)}

\* A goroutine that has not taken a case of its select to the end: it waits,
\* or its ticker fired and it has not yet cleaned the map.
Registered(t) == t.pc \in {"wait", "timeout"}

\* A goroutine that received a status.
Received(t) == t.pc \in {"resend", "behind", "insync"}

\* C1 (SpecGossip): for every origin the ids of the rumors in the store are
\* exactly 1..k, one rumor per id, whatever the order in which peer rumors
\* and client rumors came.
C1_RumorIdsContiguous ==
    \A n \in Nodes : \A o \in Origins :
        /\ IdsHeld(store[n][o]) = 1..Len(store[n][o])
        /\ \A i \in 1..Len(store[n][o]) : store[n][o][i].origin = o

\* Client rumors were admitted and a peer rumor beyond a gap was just handled.
C1_Witness ==
    /\ Len(store[Self]["X"]) >= 2
    /\ last.kind = "rumor" /\ last.origin = "A" /\ last.ID = 2
    /\ Len(store[Self]["A"]) = 0

C3_AckListsNewRumor ==
    [][(last'.kind = "rumor" /\ IsNewMessage(store[last'.node], last'))
         => /\ Len(out') >= 1
            /\ out'[1].dst = last'.from
            /\ out'[1].pkt.kind = "status"
            /\ out'[1].pkt.want[last'.origin] >= last'.ID + 1
      ]_vars

\* C7 (SpecSession): at most one registered session per peer, and it is the
\* one whose channel the map holds (so the cleanup of a timed-out session
\* deletes its own channel); while a peer has a channel in the map, no step
\* replaces that channel or sends the peer a rumor.
C7_OneSessionPerPeer ==
    /\ [](\A n \in Nodes :
            /\ \A t \in threads[n] :
                   Registered(t) => statusesChannels[n][t.peer] = t.ch
            /\ \A t, u \in threads[n] :
                   (Registered(t) /\ Registered(u) /\ t.peer = u.peer) => t = u
            /\ \A p \in Addrs :
                   statusesChannels[n][p] # 0 =>
                       \E t \in threads[n] : t.ch = statusesChannels[n][p] /\ Registered(t))
    /\ [][\A n \in Nodes : \A p \in Addrs :
            statusesChannels[n][p] # 0 =>
                /\ statusesChannels'[n][p] \in {0, statusesChannels[n][p]}
                /\ \A i \in 1..Len(out') :
                       ~(last'.node = n /\ out'[i].dst = p /\ out'[i].pkt.kind = "rumor")
       ]_vars

\* A new rumor was admitted while both peers had a session: spreadTheRumor
\* aborted, only the status went out.
C7_Witness ==
    /\ last.kind = "rumor"
    /\ Len(out) = 1 /\ out[1].pkt.kind = "status"
    /\ Len(store[Self][last.origin]) = last.ID
    /\ \A p \in OutsidePeers : statusesChannels[Self][p] # 0
    /\ \E t \in threads[Self] : t.pc = "timeout"

\* C8 (SpecSession): the message processor sends a status only on the channel
\* of a session that has received none, the one the map holds for the peer;
\* the step in which a session receives removes the peer's key.
C8_OneStatusPerSession ==
    /\ [](\A n \in Nodes :
            disp[n].pc = "sendStatus" =>
                /\ statusesChannels[n][disp[n].peer] = disp[n].ch
                /\ \E t \in threads[n] : t.ch = disp[n].ch /\ Registered(t)
                /\ \A t \in threads[n] : t.ch = disp[n].ch => ~Received(t))
    /\ [][\A n \in Nodes : \A t \in threads[n] : \A u \in threads'[n] :
            (t.pc = "wait" /\ u.ch = t.ch /\ Received(u))
                => statusesChannels'[n][t.peer] = 0
       ]_vars

\* A second status of a peer was answered by the message processor itself
\* while the session that got the first one had not finished.
C8_Witness ==
    /\ last.kind = "status"
    /\ disp[Self].pc = "idle"
    /\ \E t \in threads[Self] : t.peer = last.from /\ Received(t)
    /\ statusesChannels[Self][last.from] = 0

\* C9 (SpecSession): the message processor blocked in the send of a status
\* and the session it sends to never wait for each other: the session whose
\* ticker fired is not waiting for the mutex the sender holds.
C9_SenderAndSessionProgress ==
    \A n \in Nodes :
        disp[n].pc = "sendStatus" =>
            ~\E t \in threads[n] : t.ch = disp[n].ch /\ t.pc = "timeout"

\* C10 (SpecChain): the tail is a node of maximal depth of the block tree.
C10_TailIsDeepest ==
    \A h \in DOMAIN bm.blocks : bm.blocks[h].depth <= bm.tail.depth

\* The packets of the last step's kind on the outbound queue.
SameKindOut(o, kind) == {i \in 1..Len(o) : o[i].pkt.kind = kind}

\* C4 (SpecForward): a next-hop entry exists only for an origin with an
\* admitted rumor, and an entry is set or changed only by the step that
\* admits a rumor of that origin as new, to the peer the rumor came from;
\* no other step (stale rumor, Private, DataRequest, DataReply,
\* SearchRequest, SearchReply) touches the table.
C4_NextHopOnlyFromNewRumor ==
    /\ [](\A n \in Nodes : \A o \in Origins :
            nextHop[n][o] # None => Len(store[n][o]) > 0)
    /\ [][\A n \in Nodes : \A o \in Origins :
            nextHop'[n][o] # nextHop[n][o] =>
                /\ last'.kind = "rumor" /\ last'.node = n /\ last'.origin = o
                /\ IsNewMessage(store[n], last')
                /\ Len(store'[n][o]) = last'.ID
                /\ nextHop'[n][o] = last'.from
       ]_vars

\* A private message of origin A came from q while the next hop of A, learnt
\* from a route rumor of p, stayed p.
C4_Witness ==
    /\ last.kind = "private" /\ last.from = "q" /\ last.pkt.Origin = "A"
    /\ nextHop[Self]["A"] = "p"
    /\ Len(store[Self]["A"]) = 2 /\ store[Self]["A"][2].text = ""

\* C6 (SpecForward): a Private, DataRequest, DataReply or SearchReply for this
\* node is never forwarded; one for another node is dropped at hop limit 0 or
\* without a next hop of its destination, and else goes out once, to that
\* next hop, with the hop limit one less and not below 0.
C6_ForwardingRule ==
    [][last'.kind \in {"private", "dataRequest", "dataReply", "searchReply"} =>
         LET pkt == last'.pkt
             n == last'.node
             hop == NextHopOf(nextHop[n], pkt.Destination)
         IN  IF pkt.Destination = NameOf(n)
             THEN SameKindOut(out', pkt.kind) = {}
             ELSE IF pkt.HopLimit = 0 \/ hop = None
             THEN out' = <<>>
             ELSE /\ pkt.HopLimit - 1 >= 0
                  /\ out' = <<[dst |-> hop,
                               pkt |-> [pkt EXCEPT !.HopLimit = pkt.HopLimit - 1]]>>
      ]_vars

\* A DataReply for A with hop limit 1 went to the next hop of A with hop
\* limit 0.
C6_Witness ==
    /\ last.kind = "dataReply" /\ last.pkt.Destination = "A" /\ last.pkt.HopLimit = 1
    /\ Len(out) = 1
    /\ out[1].dst = nextHop[Self]["A"]
    /\ out[1].pkt.HopLimit = 0

\* From here c cannot learn the rumor: the message processor of b waits in
\* its send for a goroutine that waits for the mutex, b has no other
\* goroutine, no rumor is on its way to c, and a does not know c.
CutOff ==
    /\ Len(store["c"]["A"]) = 0
    /\ disp["b"].pc = "sendStatus"
    /\ threads["b"] = {t \in threads["b"] : t.ch = disp["b"].ch /\ t.pc = "timeout"}
    /\ \A d \in net : ~(d.dst = "c" /\ d.pkt.kind = "rumor")
    /\ "c" \notin Range(peers["a"])

\* CutOff, once true, stays true: c stays without the rumor.
CutOffIsStable == [][CutOff => CutOff']_vars

\* C5 (SpecLine): in the line a - b - c, after the client of a has published
\* (A, 1), c eventually holds (A, 1) with b as next hop of A; for that, no
\* reachable state may cut c off from the rumor for good.
C5_LineStaysInformable == ~CutOff

\* A block whose parent is not the tail and is as deep as the tail: accepted,
\* it makes the other branch the longer one.
ForkWins(m, block) ==
    /\ block.PrevHash \in DOMAIN m.blocks
    /\ m.blocks[block.PrevHash].hash # m.tail.hash
    /\ m.blocks[block.PrevHash].depth = m.tail.depth

\* pending after a winning fork: the transactions of the old branch back to
\* the common ancestor come back, those of the new branch leave.
PendingAfterFork(m, block) ==
    LET parentNode == m.blocks[block.PrevHash]
        lsa == getLSA(m.blocks, m.tail, parentNode)
    IN  (m.pendingTx \cup TxsDownTo(m.blocks, m.tail, lsa))
            \ (block.Transactions \cup TxsDownTo(m.blocks, parentNode, lsa))

\* The pending half of C11: holds in SpecChain.
ForkReconcilesPending ==
    [][(last'.kind = "block" /\ last'.isNew /\ ForkWins(bm, last'.pkt.Block)) =>
           bm'.pendingTx = PendingAfterFork(bm, last'.pkt.Block)
      ]_vars

\* C11 (SpecChain): when the tail and another block are at depth d and a block
\* under the other one is accepted, the tail becomes the new block and
\* pending becomes pending plus the transactions from the old tail back to
\* the lowest common ancestor, minus those from the new block back to it.
C11_ForkSwitchesTail ==
    [][(last'.kind = "block" /\ last'.isNew /\ ForkWins(bm, last'.pkt.Block)) =>
           /\ bm'.tail = InitBlockNode(bm.blocks[last'.pkt.Block.PrevHash], last'.pkt.Block)
           /\ bm'.pendingTx = PendingAfterFork(bm, last'.pkt.Block)
      ]_vars

\* C12 (SpecChain): no pending transaction is in a block of the official
\* history (tail to genesis), and no pending transaction's filename is
\* claimed by a transaction of that history.
C12_PendingDisjointFromChain ==
    \A tx \in bm.pendingTx :
        /\ ~contains(History(bm), tx)
        /\ ~containsFilename(History(bm), tx.Name)

\* The first half of C12 alone: no pending transaction is in the official
\* history.
PendingNotInHistory == bm.pendingTx \cap History(bm) = {}

\* C13 (SpecChain): on the official history (tail to genesis) a filename is
\* claimed at most once: two transactions with the same filename are the same
\* transaction of the same block.
C13_NamesClaimedOnce ==
    LET path == Branch(bm.blocks, bm.tail) IN
    \A i \in 1..Len(path) : \A j \in 1..Len(path) :
        \A t1 \in path[i].txSet : \A t2 \in path[j].txSet :
            t1.Name = t2.Name => (i = j /\ t1 = t2)

\* The same for the blocks the miner commits: a mined block claims no
\* filename the history under it has claimed.
MinedNamesAreFree ==
    [][last'.kind = "mined" =>
           \A t \in last'.pkt.Block.Transactions : ~containsFilename(History(bm), t.Name)
      ]_vars

\* C14 (SpecChain): a block that is known by its hash, whose parent is not in
\* the tree or whose proof-of-work is invalid is not accepted; a block that is
\* not accepted leaves the tree, the tail and pending as they were and sends
\* nothing; an accepted block is in the tree afterwards, so that the same
\* block is accepted once only.
C14_BadBlockRejected ==
    [][last'.kind = "block" =>
           IF last'.isNew
           THEN LET block == last'.pkt.Block IN
                /\ BlockHash(block) \notin DOMAIN bm.blocks
                /\ block.PrevHash \in DOMAIN bm.blocks
                /\ IsGood(block)
                /\ BlockHash(block) \in DOMAIN bm'.blocks
           ELSE /\ bm' = bm
                /\ out' = <<>>
      ]_vars

\* A block of the tree was submitted again and rejected, pending being not
\* empty.
C14_Witness ==
    /\ last.kind = "block" /\ ~last.isNew
    /\ last.pkt.warning = "block was already received"
    /\ Cardinality(DOMAIN bm.blocks) > 1
    /\ bm.pendingTx # {}
    /\ out = <<>>

\* C15 (SpecChain): every block of the tree but the genesis has a valid
\* proof-of-work, is stored under its hash, and its parent, the node under
\* its previous hash, is in the tree, one less deep.
C15_TreeWellFormed ==
    \A h \in DOMAIN bm.blocks \ {ZeroHash} :
        LET node == bm.blocks[h] IN
        /\ node.hash = h
        /\ LeadingBytes(h) = 0
        /\ node.parent = h[1]
        /\ node.parent \in DOMAIN bm.blocks
        /\ node.depth = bm.blocks[node.parent].depth + 1

\* The miner has committed a block on top of a block of a peer.
C15_Witness ==
    /\ last.kind = "mined"
    /\ bm.tail.hash = BlockHash(last.pkt.Block)
    /\ bm.tail.depth = 2
    /\ Cardinality(DOMAIN bm.blocks) > 2

\* The nodes of the official history without the genesis, as addTransaction
\* walks them.
OfficialBlocks(m) == {k \in Range(Branch(m.blocks, m.tail)) : ~isFake(k)}

\* No reason to reject the transaction: it is not pending, its filename is
\* not pending, and no block of the official history has it or its filename.
TxIsFree(m, tx) ==
    /\ tx \notin m.pendingTx
    /\ \A t \in m.pendingTx : t.Name # tx.Name
    /\ \A k \in OfficialBlocks(m) : \A t \in k.txSet : t # tx /\ t.Name # tx.Name

\* C16 (SpecChain): a submitted transaction is accepted exactly when it is
\* free; accepted, it joins pending and nothing else changes; rejected, the
\* tree, the tail and pending stay as they were and nothing is sent.
C16_TxAcceptedIffFree ==
    [][last'.kind = "tx" =>
           LET tx == last'.pkt.File IN
           /\ last'.isNew <=> TxIsFree(bm, tx)
           /\ IF last'.isNew
              THEN bm' = [bm EXCEPT !.pendingTx = @ \cup {tx}]
              ELSE bm' = bm /\ out' = <<>>
      ]_vars

\* A transaction was rejected only because a block of the official history
\* claims its filename for another metafile.
C16_Witness ==
    /\ last.kind = "tx" /\ ~last.isNew
    /\ \A t \in bm.pendingTx : t.Name # last.pkt.File.Name
    /\ last.pkt.File \notin History(bm)
    /\ \E t \in History(bm) : t.Name = last.pkt.File.Name
    /\ out = <<>>

\* C17 (SpecChain): a block the miner commits has, when it is committed, the
\* hash of the tail as previous hash and pending as transactions, whatever was
\* accepted since the miner's reads before the lock; after the commit the
\* tail is the node of that block and pending is empty. There is one tail: it
\* is the node the tree holds under its hash, and no block hangs under it.
C17_MinerCommitsOnTail ==
    /\ [](/\ bm.tail.hash \in DOMAIN bm.blocks
          /\ bm.blocks[bm.tail.hash] = bm.tail
          /\ \A h \in DOMAIN bm.blocks \ {ZeroHash} : bm.blocks[h].parent # bm.tail.hash)
    /\ [][last'.kind = "mined" =>
              LET block == last'.pkt.Block IN
              /\ block.PrevHash = bm.tail.hash
              /\ block.Transactions = bm.pendingTx
              /\ IsGood(block)
              /\ bm'.tail = InitBlockNode(bm.tail, block)
              /\ bm'.blocks[BlockHash(block)] = bm'.tail
              /\ bm'.pendingTx = {}
       ]_vars

\* The miner has committed a block whose transactions are not those it had
\* read before the lock, on a tail that is not the genesis.
C17_Witness ==
    /\ last.kind = "mined"
    /\ last.transactionsCopy # last.pkt.Block.Transactions
    /\ last.pkt.Block.PrevHash # ZeroHash
    /\ bm.tail.hash = BlockHash(last.pkt.Block)
    /\ bm.pendingTx = {}

\* C18 (SpecChain): a TxPublish or BlockPublish of a peer that the blockchain
\* took as new is kept; with a hop limit above 0 it goes out once to every
\* known peer, the sender included, with the hop limit one less; with hop
\* limit 0, and whenever it was not taken as new, nothing goes out.
C18_RebroadcastOnlyNew ==
    [][last'.kind \in {"tx", "block"} =>
           LET pkt == last'.pkt
               ps == peers'[last'.node]
           IN  /\ last'.isNew =>
                      IF last'.kind = "tx"
                      THEN pkt.File \in bm'.pendingTx \ bm.pendingTx
                      ELSE BlockHash(pkt.Block) \in DOMAIN bm'.blocks \ DOMAIN bm.blocks
               /\ IF last'.isNew /\ pkt.HopLimit # 0
                  THEN /\ pkt.HopLimit - 1 >= 0
                       /\ last'.from \in Range(ps)
                       /\ Len(out') = Len(ps)
                       /\ \A i \in 1..Len(ps) :
                              /\ out'[i].dst = ps[i]
                              /\ out'[i].pkt = [pkt EXCEPT !.HopLimit = pkt.HopLimit - 1]
                  ELSE out' = <<>>
      ]_vars

\* A block with hop limit 1 was taken as new and went on to both peers, the
\* sender among them, with hop limit 0.
C18_Witness ==
    /\ last.kind = "block" /\ last.isNew /\ last.pkt.HopLimit = 1
    /\ Len(out) = 2
    /\ out[2].dst = last.from
    /\ out[1].pkt.HopLimit = 0 /\ out[2].pkt.HopLimit = 0
    /\ out[1].pkt.Block = last.pkt.Block

\* A transaction with hop limit 0 was taken as new and went nowhere.
DroppedAfterAccept ==
    /\ last.kind = "tx" /\ last.isNew /\ last.pkt.HopLimit = 0
    /\ last.pkt.File \in bm.pendingTx
    /\ out = <<>>

\* The goroutines of a node that download from an origin.
TasksOf(n, o) == {t \in downloadTasks[n] : t.origin = o}

\* C19 (SpecDownload): per origin there is at most one download: at most one
\* goroutine, which exists exactly when the manager has a download of the
\* origin and exactly when the channel map has an entry for it, the channel
\* the goroutine reads. A client request for an origin with a download in
\* progress is refused: the download, the channel map and the goroutines
\* stay as they are and no DataRequest goes out.
C19_OneDownloadPerOrigin ==
    /\ [](\A n \in Nodes : \A o \in Names :
            /\ Cardinality(TasksOf(n, o)) <= 1
            /\ TasksOf(n, o) # {} <=> o \in DOMAIN downloadingFiles[n]
            /\ downloadingFilesChannels[n][o] # 0 <=> o \in DOMAIN downloadingFiles[n]
            /\ \A t \in TasksOf(n, o) :
                   t.pc # "start" => t.ch = downloadingFilesChannels[n][o])
    /\ [][last'.kind = "download" =>
              /\ last'.isNew <=> last'.origin \notin DOMAIN downloadingFiles[last'.node]
              /\ ~last'.isNew =>
                     /\ UNCHANGED <<downloadingFiles, downloadingFilesChannels, downloadTasks>>
                     /\ out' = <<>>
       ]_vars

\* The client's request for a download from A was refused while the download
\* of f from A had its metafile and waited for a chunk, and a download from Z
\* was in progress too.
C19_Witness ==
    /\ last.kind = "download" /\ ~last.isNew /\ last.origin = "A"
    /\ "A" \in DOMAIN downloadingFiles[Self]
    /\ downloadingFiles[Self]["A"].Metafile # Nil
    /\ \E t \in TasksOf(Self, "A") : t.pc = "wait" /\ t.latestRequestedHash = 2
    /\ "Z" \in DOMAIN downloadingFiles[Self]
    /\ out = <<>>

\* Before its last timeout each timeout of a goroutine sends the DataRequest
\* for latestRequestedHash again, which stays as it is, on the route of the
\* origin; the last one sends nothing and makes the goroutine give up.
TimeoutRetransmitsSameHash ==
    [][last'.kind = "downloadTimeout" =>
          \E t \in downloadTasks[last'.node] : \E u \in downloadTasks'[last'.node] :
              /\ t.pc = "wait" /\ u.origin = t.origin /\ t.origin = last'.origin
              /\ u.latestRequestedHash = t.latestRequestedHash
              /\ u.timeoutsLimit = t.timeoutsLimit - 1
              /\ IF u.timeoutsLimit > 0
                 THEN /\ u.pc = "wait"
                      /\ out' = sendPacketWithNextHop(nextHop[last'.node], t.origin,
                                    DownloadRequest(last'.node, t.origin,
                                                    t.latestRequestedHash))
                 ELSE u.pc = "abandon" /\ out' = <<>>
    ]_vars

\* A goroutine gave up: its channel and its download are gone and a client's
\* request for the origin is accepted again.
AbandonRemovesBoth ==
    [][last'.kind = "downloadAbandon" =>
          /\ downloadingFilesChannels'[last'.node][last'.origin] = 0
          /\ last'.origin \notin DOMAIN downloadingFiles'[last'.node]
          /\ \A t \in downloadTasks'[last'.node] : t.origin # last'.origin
          /\ StartDownloadingFromOrigin(downloadingFiles'[last'.node],
                                        last'.origin, "f", 1).ok
    ]_vars

\* C20 (SpecDownload): a goroutine that has had FileDownloadTimeoutsLimit
\* timeouts in a row, with no reply in between that its download took, is
\* giving up: it is on its way to drop the channel and the download.
C20_AbandonAfterMaxTimeouts ==
    \A n \in Nodes : \A t \in downloadTasks[n] :
        t.timeouts >= FileDownloadTimeoutsLimit => t.pc = "abandon"

\* The goroutine of a download that still awaits its metafile has had the
\* timeouts of the limit, the download is as it was started, and the
\* goroutine waits on with timeouts left.
TimeoutsCountRestarted ==
    \E t \in downloadTasks[Self] :
        /\ t.timeouts >= FileDownloadTimeoutsLimit
        /\ t.pc = "wait" /\ t.timeoutsLimit > 0
        /\ downloadingFiles[Self][t.origin] = InitDownloadingFile("f", 1)

\* The goroutine has had its last timeout and the message processor, holding
\* the mutex, is in the send on the channel of that goroutine.
DownloadStuck ==
    \E t \in downloadTasks[Self] :
        /\ t.pc = "abandon"
        /\ disp[Self].pc = "sendDataReply" /\ disp[Self].ch = t.ch

\* From there neither of the two moves again: the channel and the download
\* of the origin stay.
DownloadStuckIsStable ==
    [][DownloadStuck =>
          /\ DownloadStuck'
          /\ UNCHANGED <<disp, downloadingFiles, downloadingFilesChannels>>
    ]_vars

\* A DataReply the download df has no use for: its data does not hash to
\* its hash field, or its hash is not the metahash while the metafile is
\* awaited, or not a chunk that is still missing after that.
BadReply(df, drpmsg) ==
    \/ sha256(drpmsg.Data) # drpmsg.HashValue
    \/ df.Metafile = Nil /\ drpmsg.HashValue # df.MetaHash
    \/ df.Metafile # Nil /\ drpmsg.HashValue \notin df.ChunksToDownload

\* The goroutine of the origin that handles its reply in the step.
HandlesReply(t) ==
    /\ last'.kind = "downloadReply"
    /\ t \in downloadTasks[last'.node]
    /\ t.pc = "got" /\ t.origin = last'.origin

\* Such a reply leaves the downloads and latestRequestedHash as they are.
BadReplyLeavesDownload ==
    [][\A t \in downloadTasks[Self] :
          HandlesReply(t) /\ BadReply(downloadingFiles[Self][t.origin], t.dataReplyPacket[1])
          => /\ UNCHANGED <<downloadingFiles, downloadingFilesChannels>>
             /\ \E u \in downloadTasks'[Self] :
                    /\ u.origin = t.origin /\ u.pc = "wait"
                    /\ u.latestRequestedHash = t.latestRequestedHash
    ]_vars

\* C21 (SpecDownload): a DataReply whose data does not hash to its hash
\* field, or whose hash is neither the awaited metahash nor a missing chunk,
\* leaves the download and latestRequestedHash as they are, and the goroutine
\* sends the DataRequest for latestRequestedHash again.
C21_BadReplyIsRerequested ==
    [][\A t \in downloadTasks[Self] :
          HandlesReply(t) /\ BadReply(downloadingFiles[Self][t.origin], t.dataReplyPacket[1])
          => /\ UNCHANGED downloadingFiles
             /\ \E u \in downloadTasks'[Self] :
                    /\ u.origin = t.origin
                    /\ u.latestRequestedHash = t.latestRequestedHash
             /\ out' = sendPacketWithNextHop(nextHop[Self], t.origin,
                           DownloadRequest(Self, t.origin, t.latestRequestedHash))
    ]_vars

\* The goroutine of A took a reply whose data hashes to its hash, which is
\* not the metahash it awaits: nothing went out, with a route to A.
WrongHashNotRerequested ==
    /\ last.kind = "downloadReply" /\ last.origin = "A" /\ last.HashValue # 1
    /\ "A" \in DOMAIN downloadingFiles[Self]
    /\ downloadingFiles[Self]["A"].Metafile = Nil
    /\ last.isNew
    /\ out = <<>>

\* The bytes of the chunks the first k hashes of the metafile name, in the
\* order of the metafile.
RECURSIVE ChunksInOrder(_, _, _)
ChunksInOrder(metafile, chunks, k) ==
    IF k = 0 THEN <<>>
    ELSE ChunksInOrder(metafile, chunks, k - 1) \o chunks[metafile[k]]

FinishedWithRepeatedChunk ==
    /\ last.kind = "downloadReply" /\ "df" \in DOMAIN last
    /\ last.df.Name = "d" /\ last.df.Metafile = Slice(<<2, 2>>)
    /\ last.df.File = Slice(<<7, 7>>)

\* The DataReplies the node has been handed so far: each ends a round trip.
RoundTrips ==
    Cardinality({d \in net : d.delivered /\ d.dst = Self /\ d.pkt.kind = "dataReply"})

\* Nothing is on its way or being handled: only a ticker can go on.
Quiet ==
    /\ InFlight = {}
    /\ \A n \in Nodes : disp[n].pc = "idle"
    /\ \A t \in downloadTasks[Self] : t.pc = "wait"

\* The bytes of a shared file.
FileBytes(file) ==
    ChunksInOrder(file.MetaSlice, [h \in DOMAIN file.Chunks |-> <<file.Chunks[h]>>],
                  Len(file.MetaSlice))

\* The download of the file the origin shares has finished with the bytes of
\* the file; its goroutine, its channel and its record are gone.
FinishedServed ==
    /\ last.kind = "downloadReply" /\ "df" \in DOMAIN last
    /\ last.df.File = Slice(FileBytes(Served))
    /\ downloadTasks[Self] = {}
    /\ downloadingFilesChannels[Self][NameOf(Origin)] = 0
    /\ NameOf(Origin) \notin DOMAIN downloadingFiles[Self]

\* C23 (SpecServe): with an origin that answers every DataRequest and every
\* datagram delivered before a ticker fires, once nothing is on its way the
\* download the client asked for has finished, after at most one round trip
\* for the metafile and one for each of its n hashes, n >= 0.
C23_FinishesInRoundTrips ==
    (Quiet /\ net # {}) =>
        /\ FinishedServed
        /\ RoundTrips <= Len(Served.MetaSlice) + 1

\* The same for the files of at least one chunk.
FinishesWhenChunks ==
    (Quiet /\ net # {} /\ Len(Served.MetaSlice) >= 1) =>
        /\ FinishedServed
        /\ RoundTrips <= Len(Served.MetaSlice) + 1

\* The file of three chunks is there after four round trips.
ThreeChunksInFourRoundTrips ==
    /\ Served.Name = "t" /\ FinishedServed /\ RoundTrips = 4
    /\ last.df.File = Slice(<<7, 8, 12>>)

\* The file of no chunk: the node has its metafile, nothing is missing,
\* nothing is on its way, and the goroutine waits.
EmptyFileWaits ==
    /\ Served.Name = "e" /\ Quiet /\ RoundTrips = 1
    /\ downloadingFiles[Self]["A"].Metafile = Slice(<<>>)
    /\ downloadingFiles[Self]["A"].ChunksToDownload = {}
    /\ \E t \in downloadTasks[Self] : t.pc = "wait"

\* The reply came before the goroutine read its channel from the map: the
\* message processor holds the mutex in its send, the goroutine needs it.
ReplyBeforeStart ==
    /\ disp[Self].pc = "sendDataReply"
    /\ \E t \in downloadTasks[Self] : t.pc = "start"

\* The goroutines the message processor of n is sending to that are not in
\* their select: they go for downloadingFilesChannelsMux, which it holds.
LockedOut(n) ==
    {t \in downloadTasks[n] :
        /\ disp[n].pc = "sendDataReply"
        /\ downloadingFilesChannels[n][t.origin] = disp[n].ch
        /\ t.pc \in {"start", "got", "abandon"}}

\* C24 (SpecDownload): the message processor in the send of a DataReply and
\* the goroutine it sends to never wait for each other: the goroutine is in
\* its select, not on its way to the mutex with an earlier reply, its last
\* timeout or its start.
C24_SenderAndDownloadProgress ==
    \A n \in Nodes : LockedOut(n) = {}

\* Once they wait for each other they do so for ever: the message processor
\* handles nothing more and no download of the node changes.
LockedOutIsStable ==
    [][LockedOut(Self) # {} =>
          /\ LockedOut(Self)' = LockedOut(Self)
          /\ UNCHANGED <<disp, downloadingFiles, downloadingFilesChannels>>
    ]_vars

\* A second DataReply of the origin came while the goroutine had the first
\* one and had not yet taken the mutex.
SecondReplyLocksOut ==
    /\ disp[Self].pc = "sendDataReply"
    /\ \E t \in LockedOut(Self) : t.pc = "got"

\* The budgets a search has requested: of each live goroutine, and of the one
\* whose step was the last.
RequestedBudgets ==
    {<<t.clientBudget, t.requested>> : t \in searchTasks[Self]}
        \cup (IF last.kind \in {"searchTick", "searchShutdown"}
              THEN {<<last.clientBudget, last.requested>>}
              ELSE {})

\* The budgets of a search without a budget start at the start budget and
\* double, up to the maximum.
StartsAndDoubles(requested) ==
    \A i \in 1..Len(requested) :
        /\ requested[i] <= FileSearchMaxBudget
        /\ i = 1 => requested[i] = FileSearchStartBudget
        /\ i > 1 => \/ requested[i] = 2 * requested[i - 1]
                    \/ /\ requested[i] = FileSearchMaxBudget
                       /\ 2 * requested[i - 1] > FileSearchMaxBudget

\* C25 (SpecSearch): the search requests of a client search without a budget
\* have the budgets FileSearchStartBudget, then twice the one before, never
\* more than FileSearchMaxBudget; a client search with a budget sends one
\* request, of that budget.
C25_BudgetsStartAndDouble ==
    \A r \in RequestedBudgets :
        IF r[1] = 0 THEN StartsAndDoubles(r[2])
        ELSE r[2] \in {<<>>, <<r[1]>>}

\* The half about the given budget: one request, of that budget, and the
\* goroutine that has sent it sends nothing more; one that ends short of the
\* threshold has sent it.
ExplicitBudgetIsUsedOnce ==
    /\ \A r \in RequestedBudgets : r[1] # 0 => r[2] \in {<<>>, <<r[1]>>}
    /\ \A t \in searchTasks[Self] :
           t.clientBudget # 0 /\ t.requested # <<>> => t.budget > t.maxAllowedBudget
    /\ (/\ last.kind = "searchShutdown"
        /\ last.clientBudget # 0
        /\ GetFullMatchesNumber(currentSearchRequest[Self][1]) < FileSearchFullMatchesThreshold)
           => last.requested = <<last.clientBudget>>

\* What the code does without a budget: one more at each tick.
BudgetsGoUpByOne ==
    \A r \in RequestedBudgets :
        r[1] = 0 => \A i \in 1..Len(r[2]) :
                        /\ r[2][i] = FileSearchStartBudget + i - 1
                        /\ r[2][i] <= FileSearchMaxBudget

\* The second request of a search without a budget has gone out.
SecondBudgetRequested ==
    /\ last.kind = "searchTick"
    /\ last.isNew
    /\ last.clientBudget = 0
    /\ Len(last.requested) = 2

\* A search with a budget has ended.
ExplicitSearchEnded ==
    /\ last.kind = "searchShutdown"
    /\ last.clientBudget # 0
    /\ GetFullMatchesNumber(currentSearchRequest[Self][1]) < FileSearchFullMatchesThreshold

\* The search requests among what the last step sent.
Forwarded == SelectSeq(out, LAMBDA m : m.pkt.kind = "searchRequest")

RECURSIVE SumBudgets(_)
SumBudgets(ms) == IF ms = <<>> THEN 0 ELSE Head(ms).pkt.Budget + SumBudgets(Tail(ms))

\* The copies are of the origin and the keywords, to different known peers,
\* each with the floor of B/P or one more, B mod P of them with one more, B
\* in all.
SpreadOver(B, origin, keywords) ==
    LET P == Len(peers[Self]) IN
    /\ \A i \in 1..Len(Forwarded) :
           /\ Forwarded[i].pkt.Origin = origin
           /\ Forwarded[i].pkt.Keywords = keywords
           /\ Forwarded[i].pkt.Budget \in {B \div P, (B \div P) + 1}
           /\ \E j \in 1..P : peers[Self][j] = Forwarded[i].dst
           /\ \A j \in 1..Len(Forwarded) : Forwarded[j].dst = Forwarded[i].dst => j = i
    /\ Cardinality({i \in 1..Len(Forwarded) : Forwarded[i].pkt.Budget = (B \div P) + 1}) = B % P
    /\ SumBudgets(Forwarded) = B

\* C26 (SpecSearch): the copies of a forwarded SearchRequest keep origin and
\* keywords, have budget floor(B/P) or one more, B mod P of them one more,
\* and B in all; B is the budget less one for a request of another origin,
\* nothing is forwarded when that is not positive, and the budgets sent on
\* are in all less than the budget received.
C26_BudgetIsSpreadOverPeers ==
    /\ (last.kind = "searchRequest" /\ last.isNew) =>
           IF last.pkt.Origin # NameOf(Self)
           THEN /\ IF last.pkt.Budget - 1 <= 0 THEN Forwarded = <<>>
                   ELSE SpreadOver(last.pkt.Budget - 1, last.pkt.Origin, last.pkt.Keywords)
                /\ last.pkt.Budget > 0 => SumBudgets(Forwarded) < last.pkt.Budget
           ELSE SpreadOver(last.pkt.Budget, last.pkt.Origin, last.pkt.Keywords)
    /\ (last.kind = "searchTick" /\ last.isNew) =>
           SpreadOver(last.requested[Len(last.requested)], NameOf(Self), last.keywords)

\* A request of A with budget 4 is sent on to two peers: 3 over 2.
C26_Witness ==
    /\ last.kind = "searchRequest"
    /\ last.isNew
    /\ last.pkt.Origin = "A"
    /\ last.pkt.Budget = 4
    /\ Len(peers[Self]) = 2
    /\ Len(Forwarded) = 2
    /\ SumBudgets(Forwarded) = 3

\* The budget the last step had to spread, -1 when it was no such step.
RemainingBudget ==
    IF last.kind = "searchRequest" /\ last.isNew
    THEN (IF last.pkt.Origin # NameOf(Self) THEN last.pkt.Budget - 1 ELSE last.pkt.Budget)
    ELSE IF last.kind = "searchTick" /\ last.isNew
         THEN last.requested[Len(last.requested)]
         ELSE -1

\* C27 (SpecSearch): no SearchRequest of budget 0 is sent to a peer; with a
\* remaining budget B below the number of peers only B peers are sent one.
C27_NoZeroBudgetIsSent ==
    /\ \A i \in 1..Len(Forwarded) : Forwarded[i].pkt.Budget > 0
    /\ (RemainingBudget >= 0 /\ RemainingBudget < Len(peers[Self]))
           => Len(Forwarded) = RemainingBudget

\* What the code does: a request that is sent on goes to every known peer.
EveryPeerIsSent ==
    Forwarded # <<>> => Len(Forwarded) = Len(peers[Self])

\* A request of A with budget 2 went on to two peers, with budgets 1 and 0.
ZeroBudgetSent ==
    /\ last.kind = "searchRequest"
    /\ last.isNew
    /\ last.pkt.Origin = "A"
    /\ last.pkt.Budget = 2
    /\ Len(Forwarded) = 2
    /\ Forwarded[1].pkt.Budget = 1
    /\ Forwarded[2].pkt.Budget = 0

\* The key of the search request the step has handled.
HandledKey == GetRecentSearchRequestSetKey(last.pkt.Origin, last.pkt.Keywords)

\* All the search keys of SpecSearch.
SearchKeys ==
    {GetRecentSearchRequestSetKey(srqmsg.Origin, srqmsg.Keywords) : srqmsg \in SearchQuestions}

\* C28 (SpecSearch): a key is in the map from the step that processes a
\* request of it to the timeout of that request; a peer SearchRequest whose
\* key is in the map sends nothing (no reply, no copy) and leaves the map and
\* with it the pending timeout as they are; one whose key is not in the map
\* is processed and enters it.
C28_RecentRequestIsIgnored ==
    [][/\ \A key \in SearchKeys :
            /\ (key \notin recentSearchRequests[Self] /\ key \in recentSearchRequests'[Self])
                   => (last'.kind = "searchRequest" /\ HandledKey' = key)
            /\ (key \in recentSearchRequests[Self] /\ key \notin recentSearchRequests'[Self])
                   => (last'.kind = "searchTimeout" /\ last'.pkt = key)
       /\ last'.kind = "searchRequest" =>
            IF HandledKey' \in recentSearchRequests[Self]
            THEN /\ out' = <<>>
                 /\ UNCHANGED <<recentSearchRequests, sharedFiles, nextHop, currentSearchRequest,
                                searchTasks>>
            ELSE /\ HandledKey' \in recentSearchRequests'[Self]
                 /\ out' = processSearchRequest(Self, peers'[Self], last'.pkt)
    ]_vars

\* A request of A for f with budget 4 came while its key was in the map:
\* nothing was sent, where the first one was answered and sent on.
C28_Witness ==
    /\ last.kind = "searchRequest"
    /\ ~last.isNew
    /\ last.pkt.Origin = "A"
    /\ last.pkt.Budget = 4
    /\ HandledKey \in recentSearchRequests[Self]
    /\ out = <<>>
    /\ processSearchRequest(Self, peers[Self], last.pkt) # <<>>

\* The searches of the node that are alive.
AliveSearches(n) ==
    IF currentSearchRequest[n] # <<>> /\ currentSearchRequest[n][1].isAlive
    THEN {currentSearchRequest[n][1]}
    ELSE {}

\* C29 (SpecSearch): there is at most one search goroutine, and only of a
\* search that is alive; a client search that comes while the search is alive
\* changes neither the search (its channel, its matches) nor the goroutine
\* (its keywords, its budget) and starts no goroutine; one that comes when
\* there is no search or the search is not alive starts a new search with no
\* matches and the goroutine of its keywords.
C29_OneSearchAtATime ==
    /\ [](/\ Cardinality(searchTasks[Self]) <= 1
          /\ searchTasks[Self] # {} => AliveSearches(Self) # {}
          /\ \A t \in searchTasks[Self] : t.ch = currentSearchRequest[Self][1].ch)
    /\ [][last'.kind = "clientSearch" =>
            IF AliveSearches(Self) # {}
            THEN /\ ~last'.isNew
                 /\ UNCHANGED <<currentSearchRequest, searchTasks>>
            ELSE /\ last'.isNew
                 /\ searchTasks[Self] = {}
                 /\ AliveSearches(Self)' # {}
                 /\ currentSearchRequest'[Self][1].fullMatches = <<>>
                 /\ \E t \in searchTasks'[Self] :
                        /\ searchTasks'[Self] = {t}
                        /\ t.keywords = last'.keywords
                        /\ t.clientBudget = last'.clientBudget
                        /\ t.requested = <<>>
       ]_vars

\* A client search for g was rejected while the search for f, with one full
\* match, went on.
C29_Witness ==
    /\ last.kind = "clientSearch"
    /\ ~last.isNew
    /\ last.keywords = <<"g">>
    /\ \E t \in searchTasks[Self] : t.keywords = <<"f">>
    /\ AliveSearches(Self) # {}
    /\ GetFullMatchesNumber(currentSearchRequest[Self][1]) = 1

\* The goroutine waits for csr.mux: to shut the search down, to count the
\* matches, or to add a full match.
WantsSearchMux(t) ==
    \/ t.pc = "shutdown"
    \/ /\ t.pc = "got"
       /\ \/ t.results = <<>>
          \/ Len(Head(t.results).ChunkMap) = Head(t.results).ChunkCount

\* The goroutines the message processor is sending a SearchReply to, holding
\* csr.mux, while they wait for csr.mux.
SearchLockedOut(n) ==
    {t \in searchTasks[n] :
        /\ disp[n].pc = "sendSearchReply"
        /\ t.ch = disp[n].ch
        /\ WantsSearchMux(t)}

\* C30 (SpecSearch): the message processor in the send of a SearchReply and
\* the search goroutine never wait for each other: when the message processor
\* holds the lock of the search in its send, the goroutine is in its select
\* or on its way there, not at the lock with an earlier reply or its
\* shutdown.
C30_SearchAndDispatcherProgress ==
    \A n \in {Self} : SearchLockedOut(n) = {}

\* Once they wait for each other they do so for ever: the search stays alive,
\* its goroutine does not end and the message processor handles nothing more.
SearchLockedOutIsStable ==
    [][SearchLockedOut(Self) # {} =>
          /\ SearchLockedOut(Self)' = SearchLockedOut(Self)
          /\ UNCHANGED <<disp, currentSearchRequest, searchTasks>>
          /\ currentSearchRequest[Self][1].isAlive
    ]_vars

\* A second SearchReply came while the goroutine had the first one and had
\* not yet counted the matches.
SecondSearchReplyLocksOut ==
    \E t \in SearchLockedOut(Self) : t.pc = "got"

\* A SearchReply came after the goroutine's last tick and before its
\* Shutdown.
ShutdownLocksOut ==
    \E t \in SearchLockedOut(Self) :
        /\ t.pc = "shutdown"
        /\ GetFullMatchesNumber(currentSearchRequest[Self][1]) < FileSearchFullMatchesThreshold

\* The full matches of the current search, none when there is no search.
FullMatches(n) ==
    IF currentSearchRequest[n] = <<>> THEN <<>> ELSE currentSearchRequest[n][1].fullMatches

\* C31 (SpecSearch): the full matches of the current search never hold two
\* entries of the same origin and metafile hash; a step that changes the
\* matches of a search appends one match, of the result at the head of the
\* reply the goroutine holds, and that result has as many chunks in its chunk
\* map as its chunk count; a search that is not alive keeps its matches until
\* a client search replaces it, and a SearchReply that comes then is not
\* handed on.
C31_FullMatchesAreFullAndDistinct ==
    /\ [](\A i, j \in 1..Len(FullMatches(Self)) :
              (/\ FullMatches(Self)[i].Origin = FullMatches(Self)[j].Origin
               /\ FullMatches(Self)[i].MetafileHash = FullMatches(Self)[j].MetafileHash)
                  => i = j)
    /\ [][(currentSearchRequest[Self] # <<>> /\ last'.kind # "clientSearch"
              /\ FullMatches(Self)' # FullMatches(Self)) =>
            \E t \in searchTasks[Self] :
                /\ t.pc = "got"
                /\ t.results # <<>>
                /\ Len(Head(t.results).ChunkMap) = Head(t.results).ChunkCount
                /\ currentSearchRequest[Self][1].isAlive
                /\ FullMatches(Self)' =
                       Append(FullMatches(Self),
                              [Origin |-> t.replyOrigin, Filename |-> Head(t.results).FileName,
                               MetafileHash |-> Head(t.results).MetafileHash])
       ]_vars
    /\ [][(currentSearchRequest[Self] # <<>> /\ ~currentSearchRequest[Self][1].isAlive) =>
            /\ disp'[Self].pc # "sendSearchReply"
            /\ \/ currentSearchRequest' = currentSearchRequest
               \/ /\ last'.kind = "clientSearch"
                  /\ last'.isNew
       ]_vars

\* A full match of an origin and hash that was there already was offered and
\* not added.
C31_Witness ==
    /\ last.kind = "searchAddMatch"
    /\ last.isNew
    /\ last.matchesBefore = 1
    /\ Len(FullMatches(Self)) = 1

\* A partial match was skipped.
PartialMatchSkipped ==
    /\ last.kind = "searchAddMatch"
    /\ ~last.isNew
    /\ last.matchesBefore = Len(FullMatches(Self))

\* A SearchReply came for a search that had ended and was dropped.
LateReplyDropped ==
    /\ last.kind = "searchReply"
    /\ last.pkt.Destination = NameOf(Self)
    /\ currentSearchRequest[Self] # <<>>
    /\ ~currentSearchRequest[Self][1].isAlive
    /\ Len(FullMatches(Self)) = FileSearchFullMatchesThreshold
    /\ disp[Self].pc = "idle"

\* The kinds of step in which the message processor handles a peer packet.
PeerPacketKinds ==
    {"private", "dataRequest", "dataReply", "searchRequest", "searchReply", "undecodable"}

\* The peers of the list equal to the address.
Occurrences(ps, addr) == {i \in 1..Len(ps) : ps[i] = addr}

\* C32 (SpecPeers): the peer list never holds an address twice; every step
\* keeps the peers it had, in their places; a step that handles a peer packet
\* leaves its source in the list, added at the end if it was not there.
C32_PeersGrowWithoutDuplicates ==
    /\ [](\A i, j \in 1..Len(peers[Self]) : peers[Self][i] = peers[Self][j] => i = j)
    /\ [][/\ Len(peers'[Self]) >= Len(peers[Self])
          /\ SubSeq(peers'[Self], 1, Len(peers[Self])) = peers[Self]
          /\ (last'.kind \in PeerPacketKinds /\ last'.from # None) =>
                /\ Occurrences(peers'[Self], last'.from) # {}
                /\ peers'[Self] = IF Occurrences(peers[Self], last'.from) # {}
                                  THEN peers[Self]
                                  ELSE Append(peers[Self], last'.from)
       ]_vars

\* All of it but the duplicates of the start: the list only grows, by the
\* source of a peer packet that is not in it, and no address occurs more
\* often than it did at the start or once.
PeersGrowBySources ==
    [][/\ Len(peers'[Self]) >= Len(peers[Self])
       /\ SubSeq(peers'[Self], 1, Len(peers[Self])) = peers[Self]
       /\ (last'.kind \in PeerPacketKinds /\ last'.from # None) =>
             /\ Occurrences(peers'[Self], last'.from) # {}
             /\ peers'[Self] = IF Occurrences(peers[Self], last'.from) # {}
                               THEN peers[Self]
                               ELSE Append(peers[Self], last'.from)
       /\ (last'.kind \notin PeerPacketKinds \/ last'.from = None) => peers' = peers
    ]_vars

\* The operator gave the same address twice, and a packet of a new peer has
\* been handled since.
SeededTwice ==
    /\ Len(peers[Self]) = 3
    /\ peers[Self][1] = peers[Self][2]
    /\ last.kind \in PeerPacketKinds
    /\ last.from = peers[Self][3]

\* The state the threads of the node share.
sharedState == <<peers, nextHop, store, statusesChannels, threads, disp, pool, bm, miner,
                 fileVars, downloadVars>>

\* C33 (SpecPeers): a datagram that does not decode, from a peer or from the
\* client, changes nothing of the node's state, the peer list included, and
\* sends nothing.
C33_UndecodableIsDropped ==
    [][last'.kind \in {"undecodable", "clientUndecodable"} =>
          /\ UNCHANGED sharedState
          /\ out' = <<>>
    ]_vars

\* The client's half, and what is left of the peer's: nothing is sent, and
\* nothing but the peer list changes.
UndecodableOnlyAddsPeer ==
    [][last'.kind \in {"undecodable", "clientUndecodable"} =>
          /\ UNCHANGED <<nextHop, store, statusesChannels, threads, disp, pool, bm, miner,
                         fileVars, downloadVars>>
          /\ out' = <<>>
          /\ last'.kind = "clientUndecodable" => UNCHANGED peers
    ]_vars

\* The source of a datagram that did not decode is the newest peer.
UndecodableAddedPeer ==
    /\ last.kind = "undecodable"
    /\ Len(peers[Self]) = 2
    /\ peers[Self] = <<"p", "q">>
    /\ last.from = "q"

\* C34 (SpecCrash): the node keeps running whatever the client and the
\* peers send it: a search while it knows no peer and a download without a
\* destination before the first search included.
C34_NodeKeepsRunning ==
    \A n \in {Self} : Running(n)

\* The two inputs the node does not survive, and no other of SpecCrash.
PanicsOnlyOnThese ==
    [][(Running(Self) /\ ~Running(Self)') =>
          \/ /\ last'.kind = "searchTick"
             /\ peers[Self] = <<>>
          \/ /\ last'.kind = "downloadByHash"
             /\ currentSearchRequest[Self] = <<>>
    ]_vars

\* The search goroutine's first tick found no peers.
SearchWithoutPeersPanics ==
    /\ ~Running(Self)
    /\ last.kind = "searchTick"
    /\ peers[Self] = <<>>
    /\ \E t \in searchTasks[Self] : t.requested = <<>>

\* The client asked for a download without a destination before any search.
DownloadBeforeSearchPanics ==
    /\ ~Running(Self)
    /\ last.kind = "downloadByHash"
    /\ currentSearchRequest[Self] = <<>>

\* A forwarded search request with budget left is handled by a node that was
\* started without peers: its source is a peer by then.
ForwardedWithoutSeedsIsHandled ==
    /\ Running(Self)
    /\ last.kind = "searchRequest"
    /\ last.isNew
    /\ last.pkt.Budget = 2
    /\ last.pkt.Origin = "A"
    /\ Len(peers[Self]) = 1
    /\ Len(out) = 1

\* The copies of the last step that go to the address.
CopiesTo(addr) == {i \in 1..Len(out) : out[i].dst = addr}

\* C35 (SpecFlood): after a SimpleMessage of a peer every known peer but the
\* source is sent one copy and the source none; after a client message every
\* known peer is sent one copy; the copies have the origin and the text of the
\* message and the node's own address as relay address.
C35_FloodsOnceToEveryOtherPeer ==
    last.kind \in {"simple", "clientSimple"} =>
        /\ \A addr \in Range(peers[Self]) :
               Cardinality(CopiesTo(addr)) = IF addr = last.from THEN 0 ELSE 1
        /\ \A i \in 1..Len(out) :
               /\ out[i].dst \in Range(peers[Self])
               /\ out[i].pkt.kind = "simple"
               /\ out[i].pkt.OriginalName = last.pkt.OriginalName
               /\ out[i].pkt.Text = last.pkt.Text
               /\ out[i].pkt.RelayPeerAddr = Self

\* What the code does: one copy for each entry of the peer list that is not
\* the source, in the order of the list, so one copy to each other peer when
\* the list names no peer twice.
FloodsOncePerListedPeer ==
    last.kind \in {"simple", "clientSimple"} =>
        /\ Len(out) = Len(peers[Self]) - Cardinality(Occurrences(peers[Self], last.from))
        /\ \A addr \in Range(peers[Self]) :
               Cardinality(CopiesTo(addr)) =
                   IF addr = last.from THEN 0
                   ELSE Cardinality(Occurrences(peers[Self], addr))
        /\ \A i \in 1..Len(out) :
               /\ out[i].pkt.OriginalName = last.pkt.OriginalName
               /\ out[i].pkt.Text = last.pkt.Text
               /\ out[i].pkt.RelayPeerAddr = Self

\* A SimpleMessage of q reached the node that was started with p twice in its
\* list: p is sent two copies.
TwoCopiesToSeededTwice ==
    /\ last.kind = "simple"
    /\ last.from = "q"
    /\ peers[Self] = <<"p", "p", "q">>
    /\ Cardinality(CopiesTo("p")) = 2

\* The node has just handled the SimpleMessage of the origin, from its
\* predecessor and with the predecessor's address as relay address.
ReceivedSimple(n, origin) ==
    /\ last.kind = "simple"
    /\ last.node = n
    /\ last.pkt.OriginalName = origin
    /\ last.from = Predecessor(n)
    /\ last.pkt.RelayPeerAddr = Predecessor(n)

\* One client only has given its node a message so far: the copies on their
\* way are all of the origin of the message just handled.
OneMessageOnly == \A d \in net : d.pkt.OriginalName = last.pkt.OriginalName

\* C36 (SpecRing): a message the client gives to a node of the ring is
\* eventually handled as a SimpleMessage by every node, the one it was given
\* to included, coming from the node's predecessor with the predecessor's
\* address as relay address; while it is the only message of the ring no
\* node handles it in another way, and the node has then its successor and
\* its predecessor as peers, in this order; in the end every node has these
\* two peers.
C36_RingFloodReachesEveryNode ==
    /\ [](last.kind = "simple" => last.pkt.RelayPeerAddr = last.from)
    /\ []((last.kind = "simple" /\ OneMessageOnly) =>
              /\ ReceivedSimple(last.node, last.pkt.OriginalName)
              /\ peers[last.node] = <<Successor(last.node), Predecessor(last.node)>>)
    /\ \A m \in RingNodes : \A n \in RingNodes :
           (last.kind = "clientSimple" /\ last.node = m) ~> ReceivedSimple(n, NameOf(m))
    /\ \A m \in RingNodes :
           (last.kind = "clientSimple" /\ last.node = m)
               ~> [](\A n \in RingNodes : peers[n] = <<Successor(n), Predecessor(n)>>)

\* The message of a, the only one of the ring, is back at a, from c.
C36_Witness ==
    /\ ReceivedSimple("a", "A")
    /\ OneMessageOnly
    /\ net # {}
    /\ \A n \in RingNodes : peers[n] = <<Successor(n), Predecessor(n)>>

\* The message never stops: a copy of it is on its way for ever.
RingFloodNeverEnds ==
    [][net # {} => net' # {}]_vars

\* A node that knew its predecessor when its client gave it a message sent
\* it both ways: its predecessor handles it from its successor.
SecondMessageGoesBothWays ==
    /\ last.kind = "simple"
    /\ last.from = Successor(last.node)
    /\ out # <<>>

\* The peers the step has sent a rumor to.
RumorTargets == {out[i].dst : i \in {j \in 1..Len(out) : out[j].pkt.kind = "rumor"}}

\* C37 (SpecGossip): the session started for a rumor admitted from a peer
\* targets another peer whenever the node has one; the rumor is not sent
\* back to the peer it came from.
C37_RumorNotSentBackToItsSource ==
    (/\ last.kind = "rumor"
     /\ Range(peers[last.node]) \ {last.from} # {})
        => last.from \notin RumorTargets

\* What the code does: the rumor admitted goes to at most one peer, any of
\* the node's peers, its source included; the source gets the status first.
RumorGoesToAnyPeer ==
    [][last'.kind = "rumor" =>
          /\ out' # <<>>
          /\ out'[1] = [dst |-> last'.from,
                        pkt |-> feedbackStatus(store[last'.node],
                                               [origin |-> last'.origin, ID |-> last'.ID])]
          /\ \A i \in 2..Len(out') :
                 /\ i = 2
                 /\ out'[i].pkt.kind = "rumor"
                 /\ out'[i].pkt.rmsg.origin = last'.origin
                 /\ out'[i].pkt.rmsg.ID = last'.ID
                 /\ out'[i].dst \in Range(peers'[last'.node])
                 /\ statusesChannels[last'.node][out'[i].dst] = 0
                 /\ statusesChannels'[last'.node][out'[i].dst] # 0]_vars

\* A rumor admitted from p is sent back to p although q is a peer too.
RumorSentBack ==
    /\ last.kind = "rumor"
    /\ last.from = "p"
    /\ "q" \in Range(peers[last.node])
    /\ RumorTargets = {"p"}

\* A rumor admitted from p is sent on to q.
RumorSentOn ==
    /\ last.kind = "rumor"
    /\ last.from = "p"
    /\ RumorTargets = {"q"}

\* The rumors of the log the status sp says its sender lacks: the sender
\* wants the id sp[o] of the origin o and the log has it.
LackedBy(st, sp) ==
    {r \in Rumors(StatusMaxId) :
        /\ r.origin \in DOMAIN st
        /\ r.ID = sp[r.origin]
        /\ r.ID <= Len(st[r.origin])
        /\ st[r.origin][r.ID] = r}

\* The sender of sp holds a rumor the log lacks.
AheadOf(st, sp) == \E o \in DOMAIN st : sp[o] > Len(st[o]) + 1

\* The step has sent the peer the rumor r, and nothing else, and registered
\* a new session for it with the peer.
NewSessionWith(peer, r) ==
    /\ out' = <<[dst |-> peer, pkt |-> RumorPacket(r)]>>
    /\ \E u \in threads'[Self] \ threads[Self] :
           /\ u.peer = peer
           /\ u.msg = r
           /\ u.pc = "wait"
           /\ statusesChannels'[Self][peer] = u.ch
           /\ u.ch \notin {t.ch : t \in threads'[Self] \ {u}}

\* The step has registered no session and ended none but that in ended.
NoNewSession(ended) ==
    /\ threads'[Self] = threads[Self] \ ended
    /\ statusesChannels' = statusesChannels

\* The step has sent the peer the node's own status and nothing else.
OwnStatusTo(peer) ==
    out' = <<[dst |-> peer, pkt |-> StatusPacket([o \in DOMAIN store[Self] |->
                                                      Len(store[Self][o]) + 1])]>>

\* A status handled by the message processor with no session of its sender
\* in the map: the diff and the reaction to it.
AntiEntropyReaction ==
    \A d \in net \ net' :
        (/\ last'.kind = "status"
         /\ statusesChannels[Self][d.src] = 0)
            => IF LackedBy(store[Self], d.pkt.want) # {}
               THEN \E r \in LackedBy(store[Self], d.pkt.want) : NewSessionWith(d.src, r)
               ELSE IF AheadOf(store[Self], d.pkt.want)
               THEN OwnStatusTo(d.src) /\ NoNewSession({})
               ELSE out' = <<>> /\ NoNewSession({})

\* A status handed to the goroutine of its sender's session: the diff.
SessionDiff ==
    (disp[Self].pc = "sendStatus" /\ disp'[Self].pc = "idle")
        => \E t \in threads[Self] : \E u \in threads'[Self] :
               /\ t.ch = disp[Self].ch
               /\ t.peer = disp[Self].peer
               /\ threads'[Self] = (threads[Self] \ {t}) \cup {u}
               /\ u.ch = t.ch
               /\ u.peer = t.peer
               /\ out' = <<>>
               /\ IF LackedBy(store[Self], disp[Self].sp) # {}
                  THEN u.pc = "resend" /\ u.msg \in LackedBy(store[Self], disp[Self].sp)
                  ELSE IF AheadOf(store[Self], disp[Self].sp)
                  THEN u.pc = "behind" /\ u.msg = t.msg
                  ELSE u.pc = "insync" /\ u.msg = t.msg

\* The goroutine t ends with this step.
Ends(t) == t \in threads[Self] /\ t \notin threads'[Self]

\* The coin of the goroutine t: it stops, or its rumor goes to some peer.
CoinOf(t) ==
    \/ out' = <<>> /\ NoNewSession({t})
    \/ \E peer \in Range(peers[Self]) :
           \/ NewSessionWith(peer, t.msg)
           \/ statusesChannels[Self][peer] # 0 /\ out' = <<>> /\ NoNewSession({t})

\* The goroutine's reaction to the diff of the status it was handed, but
\* for the peer that lacks a rumor.
SessionReaction ==
    \A t \in threads[Self] :
        /\ (t.pc = "behind" /\ Ends(t)) => OwnStatusTo(t.peer) /\ NoNewSession({t})
        /\ (t.pc = "insync" /\ Ends(t)) => CoinOf(t)

\* C38 (SpecStatus): a status of the peer P is diffed against the log with
\* a fixed priority. If the node holds a rumor P lacks, P is sent exactly
\* this rumor and a new session with P is registered, also when P holds
\* rumors the node lacks; otherwise, if P is ahead, P is sent the node's own
\* status once and no session starts; otherwise P is sent nothing by the
\* diff, and the coin is flipped only by a goroutine that found its peer in
\* sync.
C38_StatusDiffPriority ==
    [][/\ AntiEntropyReaction
       /\ SessionDiff
       /\ SessionReaction
       /\ \A t \in threads[Self] :
              (t.pc = "resend" /\ Ends(t)) => NewSessionWith(t.peer, t.msg)]_vars

\* What the code does: the same, but the goroutine that is to send P the
\* rumor it lacks sends nothing and ends when a session with P has been
\* registered since the status was handed to it.
StatusDiffUnlessSessionOpen ==
    [][/\ AntiEntropyReaction
       /\ SessionDiff
       /\ SessionReaction
       /\ \A t \in threads[Self] :
              (t.pc = "resend" /\ Ends(t)) =>
                  IF statusesChannels[Self][t.peer] = 0
                  THEN NewSessionWith(t.peer, t.msg)
                  ELSE out' = <<>> /\ NoNewSession({t})]_vars

\* The goroutine of p's session is about to send p the rumor p lacks, and
\* a new session with p is registered already.
ResendMeetsOpenSession ==
    \E t \in threads[Self] :
        /\ t.pc = "resend"
        /\ t.peer = "p"
        /\ statusesChannels[Self]["p"] # 0

\* The priority at work: the goroutine sends p the rumor of A that p lacks,
\* not the rumor of X it was started with, while p holds a rumor of X the
\* node may lack.
ResendOtherRumor ==
    \E t \in threads[Self] :
        /\ t.pc = "wait"
        /\ t.peer = "p"
        /\ t.msg.origin = "A"
        /\ last.kind = "thread"
        /\ out = <<[dst |-> "p", pkt |-> RumorPacket(t.msg)]>>
        /\ store[Self]["X"] # <<>>

\* The data the node holds for the hash h: the metafile or a chunk of a
\* shared file, the metafile a download has received, a chunk a download
\* has received and written.
HeldData(h) ==
    {f.MetaSlice : f \in {g \in sharedFiles[Self] : g.MetaHash = h}}
    \cup {<<f.Chunks[h]>> : f \in {g \in sharedFiles[Self] : h \in DOMAIN g.Chunks}}
    \cup {downloadingFiles[Self][o].Metafile[1] :
              o \in {q \in DOMAIN downloadingFiles[Self] :
                        /\ downloadingFiles[Self][q].MetaHash = h
                        /\ downloadingFiles[Self][q].Metafile # <<>>}}
    \cup {downloadingFiles[Self][o].Chunks[h] :
              o \in {q \in DOMAIN downloadingFiles[Self] :
                        /\ downloadingFiles[Self][q].Metafile # <<>>
                        /\ h \in Range(downloadingFiles[Self][q].ChunksHashesSlice)
                        /\ h \notin downloadingFiles[Self][q].ChunksToDownload
                        /\ h \in DOMAIN downloadingFiles[Self][q].Chunks}}

\* The DataReplies of the step's output.
RepliesSent == {i \in 1..Len(out) : out[i].pkt.kind = "dataReply"}

\* C39 (SpecHold): a DataRequest for the node is answered only with data
\* the node holds for the hash, which hashes to it: of a shared file, or of
\* a download the metafile received or a chunk received; the one reply
\* carries the requested hash and goes to the request's origin; a request
\* for a hash the node holds nothing for, a chunk still missing included,
\* and a request for another node produce no reply.
C39_AnswersOnlyWithHeldData ==
    last.kind = "dataRequest" =>
        /\ \A i \in RepliesSent :
               /\ last.pkt.Destination = NameOf(Self)
               /\ Len(out) = 1
               /\ out[i].dst = nextHop[Self][last.pkt.Origin]
               /\ out[i].pkt.Origin = NameOf(Self)
               /\ out[i].pkt.Destination = last.pkt.Origin
               /\ out[i].pkt.HashValue = last.pkt.HashValue
               /\ out[i].pkt.Data \in HeldData(last.pkt.HashValue)
               /\ sha256(out[i].pkt.Data) = last.pkt.HashValue
        /\ (last.pkt.Destination = NameOf(Self) /\ HeldData(last.pkt.HashValue) = {})
               => out = <<>>
        /\ (last.pkt.Destination = NameOf(Self) /\ HeldData(last.pkt.HashValue) # {})
               => RepliesSent # {}

\* The node answers with the chunk <<7>> that its download of g has
\* received, while the other chunk of g is missing.
C39_Witness ==
    /\ last.kind = "dataRequest"
    /\ sharedFiles[Self] = {}
    /\ RepliesSent = {1}
    /\ out[1].pkt.Data = <<7>>
    /\ \E o \in DOMAIN downloadingFiles[Self] : 5 \in downloadingFiles[Self][o].ChunksToDownload

\* The request for the chunk of g that is still missing gets no reply.
MissingChunkNotAnswered ==
    /\ last.kind = "dataRequest"
    /\ last.pkt.Destination = NameOf(Self)
    /\ last.pkt.HashValue = 5
    /\ out = <<>>
    /\ \E o \in DOMAIN downloadingFiles[Self] : 5 \in downloadingFiles[Self][o].ChunksToDownload

\* The request for the metahash of a download whose metafile has not come
\* gets no reply.
MetafileNotReceivedNotAnswered ==
    /\ last.kind = "dataRequest"
    /\ last.pkt.Destination = NameOf(Self)
    /\ out = <<>>
    /\ \E o \in DOMAIN downloadingFiles[Self] :
           /\ downloadingFiles[Self][o].MetaHash = last.pkt.HashValue
           /\ downloadingFiles[Self][o].Metafile = <<>>

\* The metafile of a download is served once received.
ReceivedMetafileAnswered ==
    /\ last.kind = "dataRequest"
    /\ sharedFiles[Self] = {}
    /\ RepliesSent = {1}
    /\ out[1].pkt.Data = <<2, 5>>

\* C40 (SpecChain): every block the miner commits holds at least one
\* transaction, also when a block accepted between the miner's check of
\* pending without the lock and its commit under the lock has emptied
\* pending.
C40_MinedBlockIsNotEmpty ==
    last.kind = "mined" => last.pkt.Block.Transactions # {}

\* What the code does: the miner leaves its check only with pending not
\* empty, and the block it commits holds pending as it is under the lock,
\* empty or not, whenever the block built from it is good.
MinedBlockHoldsPendingUnderLock ==
    /\ [][(miner.pc = "mine" /\ miner'.pc = "copy") => bm.pendingTx # {}]_vars
    /\ [][last'.kind = "mined" =>
              /\ miner.pc = "lock"
              /\ last'.pkt.Block.Transactions = bm.pendingTx
              /\ last'.pkt.Block.PrevHash = bm.tail.hash
              /\ IsGood(last'.pkt.Block)
              /\ bm'.tail.txSet = bm.pendingTx]_vars

\* The miner found pending not empty and has copied an empty pending: a
\* block was accepted between the two reads.
EmptyPendingCopied ==
    /\ miner.pc = "tail"
    /\ miner.Transactions = {}

\* The miner has committed a block of no transaction: the transactions it
\* had read were taken by a block accepted before the lock.
EmptyBlockMined ==
    /\ last.kind = "mined"
    /\ last.pkt.Block.Transactions = {}
    /\ last.transactionsCopy # {}
    /\ bm.tail.txSet = {}
    /\ bm.tail.depth = 2

\* The miner has committed a block of the transactions it had read.
FullBlockMined ==
    /\ last.kind = "mined"
    /\ last.pkt.Block.Transactions = last.transactionsCopy
    /\ last.transactionsCopy # {}

====
